---- MODULE Spec2Model ----
(***************************************************************************)
(* Touchpoint gap audit (src/main.go): buildReport folds the rows of an    *)
(* outreach CSV into one accumulator per scholar, then derives the         *)
(* per-scholar summaries, the tier counts and the bucket summaries.        *)
(*                                                                         *)
(* A time.Time is a record [day, sec]: day is the number of days since     *)
(* 0001-01-01 (the zero Time is day 0, second 0) and sec the second of     *)
(* that day.  All times are UTC: the date strings drawn here carry no      *)
(* zone offset other than Z.  Floats that the program rounds to one        *)
(* decimal (round1) are kept as integers in tenths.                        *)
(***************************************************************************)
EXTENDS Integers, Sequences, FiniteSets, TLC

VARIABLES
    pc,          \* position in main and buildReport: "flags", "open", "reading",
                 \* "done", "failed", "printed", ..., "exited"
    policy,      \* buildReport's parameters: asOf, cadenceDays, dueWindowDays, topN, dedupeDay
    stats,       \* map scholar id -> ScholarStats (main.go:278)
    invalidRows, \* main.go:279
    futureRows,  \* main.go:280
    nread,       \* number of data records read so far
    report,      \* the Report returned (main.go:457), NoReport before
    ghost,       \* history of the run, kept for the properties only
    probe,       \* inputs and results of the pure functions applied on their own
    flags,       \* the command line of main (main.go:121-139)
    out,         \* what main has done outside its memory: input opened, report
                 \* printed, files written, the error it exited with
    db           \* the database and the connections at work on it

vars == <<pc, policy, stats, invalidRows, futureRows, nread, report, ghost, probe,
          flags, out, db>>

\* the state outside buildReport
outside == <<flags, out, db>>

----------------------------------------------------------------------------
(* Bounds of the model *)

\* data records read by one run of buildReport under Spec
MaxRows == 3
\* data records read by one run under SpecTempo (one scholar, dates only)
MaxContacts == 4
\* largest gap, in days, handed to the pure functions under SpecProbe
MaxGap == 130

\* 2026-02-01, the as-of date of the repository's tests, as a day number
AsOfDay == 739647

----------------------------------------------------------------------------
(* time.Time *)

SecondsPerDay == 24 * 60 * 60

ZeroTime == [day |-> 0, sec |-> 0]

IsZero(t) == t = ZeroTime

After(a, b) == a.day > b.day \/ (a.day = b.day /\ a.sec > b.sec)

Before(a, b) == a.day < b.day \/ (a.day = b.day /\ a.sec < b.sec)

Equal(a, b) == a.day = b.day /\ a.sec = b.sec

\* a.Sub(b), in seconds
Sub(a, b) == (a.day - b.day) * SecondsPerDay + (a.sec - b.sec)

\* the cadence not added: the next due date is the last contact
AddDays_none(t, days) == t

\* t.AddDate(0, 0, days)
AddDays(t, days) == [day |-> t.day + days, sec |-> t.sec]

\* int(d.Hours() / 24): the conversion to int truncates toward zero
WholeDays(d) == IF d >= 0 THEN d \div SecondsPerDay ELSE -((-d) \div SecondsPerDay)

\* value.Format("2006-01-02"): the calendar date of the value; the string
\* is represented by the day number it spells
FormatDate(value) == value.day

dateOnly(value) == IF IsZero(value) THEN value ELSE [day |-> value.day, sec |-> 0]

----------------------------------------------------------------------------
(* Strings and date strings *)

\* strings.TrimSpace on the strings that occur as raw CSV fields
TrimSpace(s) ==
    CASE s = "  " -> ""
      [] s = " S-2 " -> "S-2"
      [] OTHER -> s

\* getValue(record, idx): the trimmed field, "" when the record has no such
\* field (a missing optional column or a short record reads as "")
getValue(record, field) ==
    IF field \in DOMAIN record THEN TrimSpace(record[field]) ELSE ""

\* getValue(record, dateIdx): date strings are represented already trimmed
getDateValue(record) ==
    IF "contact_date" \in DOMAIN record THEN record.contact_date
    ELSE [form |-> "", day |-> 0, sec |-> 0]

\* A date string is represented by the layout it is written in and the
\* calendar day and second of day it spells: [form, day, sec].  form is one
\* of parseDate's layouts, "" for the empty string, or "other" for text in
\* none of the layouts.
Layouts ==
    << "2006-01-02", "2006/01/02", "01/02/2006", "01-02-2006",
       "2006-01-02 15:04:05", "2006-01-02T15:04:05", "2006-01-02T15:04:05Z07:00" >>

DateOnlyLayouts == {"2006-01-02", "2006/01/02", "01/02/2006", "01-02-2006"}

EmptyDate == [form |-> "", day |-> 0, sec |-> 0]

\* time.Parse(layout, value)
ParseLayout(layout, value) ==
    IF value.form = layout
    THEN [ok |-> TRUE,
          t |-> [day |-> value.day,
                 sec |-> IF layout \in DateOnlyLayouts THEN 0 ELSE value.sec]]
    ELSE [ok |-> FALSE, t |-> ZeroTime]

RECURSIVE TryLayouts(_, _)
TryLayouts(value, i) ==
    IF i > Len(Layouts) THEN [ok |-> FALSE, t |-> ZeroTime]
    ELSE LET r == ParseLayout(Layouts[i], value)
         IN IF r.ok THEN r ELSE TryLayouts(value, i + 1)

parseDate(value) ==
    IF value.form = "" THEN [ok |-> FALSE, t |-> ZeroTime]
    ELSE TryLayouts(value, 1)

----------------------------------------------------------------------------
(* Row ingestion: the body of buildReport's read loop *)

\* an empty Go map
EmptyMap == [x \in {} |-> 0]

NewScholar(scholarID) ==
    [ScholarID |-> scholarID, Program |-> "", LastChannel |-> "",
     LastStatus |-> "", LastContact |-> ZeroTime, ContactCount |-> 0,
     FirstContact |-> ZeroTime, Channels |-> EmptyMap, Contacts |-> <<>>,
     ContactDates |-> {}]

\* m[k] = v on a Go map
MapPut(m, k, v) == [x \in (DOMAIN m) \cup {k} |-> IF x = k THEN v ELSE m[x]]

\* m[k]++ on a Go map[string]int
MapInc(m, k) == MapPut(m, k, (IF k \in DOMAIN m THEN m[k] ELSE 0) + 1)

\* the check for an empty scholar id left out
MissingID_never(scholarID) == FALSE

\* scholarID == "" (main.go:296)
MissingID(scholarID) == scholarID = ""

\* the comparison with its operands exchanged
IsFutureRow_reversed(parsedDate, asOfDate) == After(asOfDate, parsedDate)

\* parsedDate.After(asOfDate) (main.go:307)
IsFutureRow(parsedDate, asOfDate) == After(parsedDate, asOfDate)

\* every program value given replaces the one held
SetProgram_lastWins(scholar, program) ==
    IF program # ""
    THEN [scholar EXCEPT !.Program = program]
    ELSE scholar

\* if program != "" && scholar.Program == "" (main.go:330)
SetProgram(scholar, program) ==
    IF program # "" /\ scholar.Program = ""
    THEN [scholar EXCEPT !.Program = program]
    ELSE scholar

\* _, seen := scholar.ContactDates[dateKey] (main.go:338)
SeenDate(scholar, dateKey) == dateKey \in scholar.ContactDates

\* the duplicate refreshes only when strictly later
RefreshLast_strict(scholar, parsedDate, channel, status) ==
    IF IsZero(scholar.LastContact) \/ After(parsedDate, scholar.LastContact)
    THEN [scholar EXCEPT !.LastContact = parsedDate, !.LastChannel = channel,
                         !.LastStatus = status]
    ELSE scholar

\* the same-day duplicate under dedupeDay (main.go:339-344)
RefreshLast(scholar, parsedDate, channel, status) ==
    IF IsZero(scholar.LastContact) \/ After(parsedDate, scholar.LastContact)
       \/ Equal(parsedDate, scholar.LastContact)
    THEN [scholar EXCEPT !.LastContact = parsedDate, !.LastChannel = channel,
                         !.LastStatus = status]
    ELSE scholar

\* first contact (main.go:350-356)
UpdateFirst(scholar, parsedDate) ==
    IF ~IsZero(scholar.FirstContact)
    THEN IF Before(parsedDate, scholar.FirstContact)
         THEN [scholar EXCEPT !.FirstContact = parsedDate]
         ELSE scholar
    ELSE [scholar EXCEPT !.FirstContact = parsedDate]

\* an equal time replaces the last contact as well
UpdateLast_orEqual(scholar, parsedDate, channel, status) ==
    IF IsZero(scholar.LastContact) \/ After(parsedDate, scholar.LastContact)
       \/ Equal(parsedDate, scholar.LastContact)
    THEN [scholar EXCEPT !.LastContact = parsedDate, !.LastChannel = channel,
                         !.LastStatus = status]
    ELSE scholar

\* last contact (main.go:360-364)
UpdateLast(scholar, parsedDate, channel, status) ==
    IF IsZero(scholar.LastContact) \/ After(parsedDate, scholar.LastContact)
    THEN [scholar EXCEPT !.LastContact = parsedDate, !.LastChannel = channel,
                         !.LastStatus = status]
    ELSE scholar

\* a counted contact (main.go:348-364)
AddContact(scholar, parsedDate, channel, status) ==
    LET counted == [scholar EXCEPT !.ContactCount = @ + 1,
                                   !.Contacts = Append(@, parsedDate)]
        first == UpdateFirst(counted, parsedDate)
        chans == IF channel # ""
                 THEN [first EXCEPT !.Channels = MapInc(@, channel)]
                 ELSE first
    IN UpdateLast(chans, parsedDate, channel, status)

\* the same-day duplicate refreshed and then counted: the continue left out
Accumulate_countsDuplicates(scholar, parsedDate, program, channel, status, dedupeDay) ==
    LET withProgram == SetProgram(scholar, program)
        dateKey == FormatDate(dateOnly(parsedDate))
    IN IF dedupeDay
       THEN IF SeenDate(withProgram, dateKey)
            THEN AddContact(RefreshLast(withProgram, parsedDate, channel, status),
                            parsedDate, channel, status)
            ELSE AddContact([withProgram EXCEPT !.ContactDates = @ \cup {dateKey}],
                            parsedDate, channel, status)
       ELSE AddContact(withProgram, parsedDate, channel, status)

\* the same-day duplicate refreshed and its date kept for the intervals
Accumulate_appendsDuplicates(scholar, parsedDate, program, channel, status, dedupeDay) ==
    LET withProgram == SetProgram(scholar, program)
        dateKey == FormatDate(dateOnly(parsedDate))
    IN IF dedupeDay
       THEN IF SeenDate(withProgram, dateKey)
            THEN [RefreshLast(withProgram, parsedDate, channel, status)
                     EXCEPT !.Contacts = Append(@, parsedDate)]
            ELSE AddContact([withProgram EXCEPT !.ContactDates = @ \cup {dateKey}],
                            parsedDate, channel, status)
       ELSE AddContact(withProgram, parsedDate, channel, status)

\* the accumulator part of the loop body (main.go:325-364)
Accumulate(scholar, parsedDate, program, channel, status, dedupeDay) ==
    LET withProgram == SetProgram(scholar, program)
        dateKey == FormatDate(dateOnly(parsedDate))
    IN IF dedupeDay
       THEN IF SeenDate(withProgram, dateKey)
            THEN RefreshLast(withProgram, parsedDate, channel, status)
            ELSE AddContact([withProgram EXCEPT !.ContactDates = @ \cup {dateKey}],
                            parsedDate, channel, status)
       ELSE AddContact(withProgram, parsedDate, channel, status)

\* the continue after futureRows++ left out: the record dated after as-of
\* is counted and folded as well
ProcessRecord_futureFolded(st, record, asOfDate, dedupeDay) ==
    LET scholarID == getValue(record, "scholar_id")
        parsed == parseDate(getDateValue(record))
        program == getValue(record, "program")
        channel == getValue(record, "channel")
        status == getValue(record, "status")
    IN IF MissingID(scholarID) THEN [st EXCEPT !.invalidRows = @ + 1]
       ELSE IF ~parsed.ok THEN [st EXCEPT !.invalidRows = @ + 1]
       ELSE LET scholar == IF scholarID \in DOMAIN st.stats
                           THEN st.stats[scholarID]
                           ELSE NewScholar(scholarID)
            IN [st EXCEPT !.futureRows = IF IsFutureRow(parsed.t, asOfDate)
                                        THEN @ + 1 ELSE @,
                          !.stats =
                   MapPut(@, scholarID,
                          Accumulate(scholar, parsed.t, program, channel, status,
                                     dedupeDay))]

\* one iteration of the read loop on a record (main.go:295-364); st is
\* [stats, invalidRows, futureRows]
ProcessRecord(st, record, asOfDate, dedupeDay) ==
    LET scholarID == getValue(record, "scholar_id")
        parsed == parseDate(getDateValue(record))
        program == getValue(record, "program")
        channel == getValue(record, "channel")
        status == getValue(record, "status")
    IN IF MissingID(scholarID) THEN [st EXCEPT !.invalidRows = @ + 1]
       ELSE IF ~parsed.ok THEN [st EXCEPT !.invalidRows = @ + 1]
       ELSE IF IsFutureRow(parsed.t, asOfDate) THEN [st EXCEPT !.futureRows = @ + 1]
       ELSE LET scholar == IF scholarID \in DOMAIN st.stats
                           THEN st.stats[scholarID]
                           ELSE NewScholar(scholarID)
            IN [st EXCEPT !.stats =
                   MapPut(@, scholarID,
                          Accumulate(scholar, parsed.t, program, channel, status,
                                     dedupeDay))]

----------------------------------------------------------------------------
(* Gap classification and tempo *)

\* round1(num / den) in tenths: math.Round rounds half away from zero
round1(num, den) ==
    IF num >= 0 THEN (20 * num + den) \div (2 * den)
    ELSE -((20 * (-num) + den) \div (2 * den))

\* the subtraction with its operands exchanged
gapDays_swapped(asOf, lastContact) ==
    IF IsZero(lastContact) THEN 0
    ELSE LET asOfDate == dateOnly(asOf)
             lastDate == dateOnly(lastContact)
         IN IF After(lastDate, asOfDate) THEN 0
            ELSE WholeDays(Sub(lastDate, asOfDate))

gapDays(asOf, lastContact) ==
    IF IsZero(lastContact) THEN 0
    ELSE LET asOfDate == dateOnly(asOf)
             lastDate == dateOnly(lastContact)
         IN IF After(lastDate, asOfDate) THEN 0
            ELSE WholeDays(Sub(asOfDate, lastDate))

\* a tier name misspelt
gapTier_typo(gap, cadenceDays, dueWindowDays) ==
    IF gap <= cadenceDays THEN "on_track"
    ELSE IF gap <= cadenceDays + dueWindowDays THEN "due_soon"
    ELSE IF gap <= cadenceDays * 2 THEN "over_due"
    ELSE "critical"

\* the bounds taken as exclusive
gapTier_strict(gap, cadenceDays, dueWindowDays) ==
    IF gap < cadenceDays THEN "on_track"
    ELSE IF gap < cadenceDays + dueWindowDays THEN "due_soon"
    ELSE IF gap < cadenceDays * 2 THEN "overdue"
    ELSE "critical"

\* the test for overdue made before the test for due_soon
gapTier_overdueFirst(gap, cadenceDays, dueWindowDays) ==
    IF gap <= cadenceDays THEN "on_track"
    ELSE IF gap <= cadenceDays * 2 THEN "overdue"
    ELSE IF gap <= cadenceDays + dueWindowDays THEN "due_soon"
    ELSE "critical"

gapTier(gap, cadenceDays, dueWindowDays) ==
    IF gap <= cadenceDays THEN "on_track"
    ELSE IF gap <= cadenceDays + dueWindowDays THEN "due_soon"
    ELSE IF gap <= cadenceDays * 2 THEN "overdue"
    ELSE "critical"

\* Go's integer division truncates toward zero
GoDiv(a, b) == IF a >= 0 THEN a \div b ELSE -((-a) \div b)

\* the division rounding down instead of up
missedCadences_floor(gap, cadenceDays) ==
    IF cadenceDays <= 0 THEN 0
    ELSE IF gap <= cadenceDays THEN 0
    ELSE GoDiv(gap - cadenceDays, cadenceDays)

missedCadences(gap, cadenceDays) ==
    IF cadenceDays <= 0 THEN 0
    ELSE IF gap <= cadenceDays THEN 0
    ELSE GoDiv(gap - cadenceDays + cadenceDays - 1, cadenceDays)

\* insertion of t into an ascending sequence, after the entries not after it
RECURSIVE InsertAsc(_, _)
InsertAsc(sorted, t) ==
    IF sorted = <<>> THEN <<t>>
    ELSE IF Before(t, Head(sorted)) THEN <<t>> \o sorted
    ELSE <<Head(sorted)>> \o InsertAsc(Tail(sorted), t)

\* sort.Slice(normalized, Before) (main.go:557): entries equal under Before
\* are the same value, so every sorting order gives this sequence
RECURSIVE SortAsc(_)
SortAsc(dates) ==
    IF dates = <<>> THEN <<>>
    ELSE InsertAsc(SortAsc(Tail(dates)), Head(dates))

\* the values kept by the normalising loop (main.go:547-553)
RECURSIVE Normalized(_)
Normalized(dates) ==
    IF dates = <<>> THEN <<>>
    ELSE IF IsZero(Head(dates)) THEN Normalized(Tail(dates))
    ELSE <<dateOnly(Head(dates))>> \o Normalized(Tail(dates))

\* totalDays of the loop at main.go:560-564
RECURSIVE TotalDays(_)
TotalDays(sorted) ==
    IF Len(sorted) < 2 THEN 0
    ELSE WholeDays(Sub(sorted[2], sorted[1])) + TotalDays(Tail(sorted))

\* the total divided by the number of dates instead of intervals
averageIntervalDays_byCount(dates) ==
    IF Len(dates) < 2 THEN 0
    ELSE LET normalized == Normalized(dates)
         IN IF Len(normalized) < 2 THEN 0
            ELSE round1(TotalDays(SortAsc(normalized)), Len(normalized))

\* in tenths of a day
averageIntervalDays(dates) ==
    IF Len(dates) < 2 THEN 0
    ELSE LET normalized == Normalized(dates)
         IN IF Len(normalized) < 2 THEN 0
            ELSE round1(TotalDays(SortAsc(normalized)), Len(normalized) - 1)

\* in tenths
contactsPerMonth(contactCount, daysSinceFirst) ==
    IF contactCount <= 0 \/ daysSinceFirst <= 0 THEN 0
    ELSE round1(contactCount * 30, daysSinceFirst)

\* the ScholarSummary of one accumulator (main.go:376-411)
Summarize(scholar, asOf, cadenceDays, dueWindowDays) ==
    LET gap == gapDays(asOf, scholar.LastContact)
        hasLast == ~IsZero(scholar.LastContact)
        hasFirst == ~IsZero(scholar.FirstContact)
        daysSinceFirst == IF hasFirst THEN gapDays(asOf, scholar.FirstContact) ELSE 0
    IN [ScholarID |-> scholar.ScholarID,
        Program |-> scholar.Program,
        LastChannel |-> scholar.LastChannel,
        LastStatus |-> scholar.LastStatus,
        LastContact |-> scholar.LastContact,
        FirstContact |-> scholar.FirstContact,
        NextDueDate |-> IF hasLast
                        THEN dateOnly(AddDays(scholar.LastContact, cadenceDays))
                        ELSE ZeroTime,
        ContactCount |-> scholar.ContactCount,
        GapDays |-> gap,
        DaysPastDue |-> IF hasLast /\ gap > cadenceDays THEN gap - cadenceDays ELSE 0,
        MissedCadences |-> missedCadences(gap, cadenceDays),
        DaysSinceFirst |-> daysSinceFirst,
        AvgIntervalDays |-> IF hasFirst THEN averageIntervalDays(scholar.Contacts) ELSE 0,
        ContactsPerMonth |-> IF hasFirst
                             THEN contactsPerMonth(scholar.ContactCount, daysSinceFirst)
                             ELSE 0,
        Tier |-> gapTier(gap, cadenceDays, dueWindowDays)]

----------------------------------------------------------------------------
(* Summaries of the report *)

\* a nil *int of a bucket definition
Nil == "nil"

dueBucketDefinitions ==
    << [Label |-> "overdue", MinDays |-> Nil, MaxDays |-> -1],
       [Label |-> "due_0_7", MinDays |-> 0, MaxDays |-> 7],
       [Label |-> "due_8_14", MinDays |-> 8, MaxDays |-> 14],
       [Label |-> "due_15_30", MinDays |-> 15, MaxDays |-> 30],
       [Label |-> "due_31_60", MinDays |-> 31, MaxDays |-> 60],
       [Label |-> "due_61_plus", MinDays |-> 61, MaxDays |-> Nil],
       [Label |-> "unknown", MinDays |-> Nil, MaxDays |-> Nil] >>

recencyBucketDefinitions ==
    << [Label |-> "0_7", MinDays |-> 0, MaxDays |-> 7],
       [Label |-> "8_30", MinDays |-> 8, MaxDays |-> 30],
       [Label |-> "31_60", MinDays |-> 31, MaxDays |-> 60],
       [Label |-> "61_90", MinDays |-> 61, MaxDays |-> 90],
       [Label |-> "91_180", MinDays |-> 91, MaxDays |-> 180],
       [Label |-> "181_plus", MinDays |-> 181, MaxDays |-> Nil],
       [Label |-> "unknown", MinDays |-> Nil, MaxDays |-> Nil] >>

\* daysUntil of bucketDueLabel (main.go:1626-1628)
daysUntilDue(nextDue, asOf) == WholeDays(Sub(dateOnly(nextDue), dateOnly(asOf)))

\* the upper bounds taken as exclusive
bucketDueLabel_offByOne(nextDue, asOf) ==
    IF IsZero(nextDue) THEN "unknown"
    ELSE LET daysUntil == daysUntilDue(nextDue, asOf)
         IN IF daysUntil < 0 THEN "overdue"
            ELSE IF daysUntil < 7 THEN "due_0_7"
            ELSE IF daysUntil < 14 THEN "due_8_14"
            ELSE IF daysUntil < 30 THEN "due_15_30"
            ELSE IF daysUntil < 60 THEN "due_31_60"
            ELSE "due_61_plus"

bucketDueLabel(nextDue, asOf) ==
    IF IsZero(nextDue) THEN "unknown"
    ELSE LET daysUntil == daysUntilDue(nextDue, asOf)
         IN IF daysUntil < 0 THEN "overdue"
            ELSE IF daysUntil <= 7 THEN "due_0_7"
            ELSE IF daysUntil <= 14 THEN "due_8_14"
            ELSE IF daysUntil <= 30 THEN "due_15_30"
            ELSE IF daysUntil <= 60 THEN "due_31_60"
            ELSE "due_61_plus"

\* the label of the second bucket misspelt
bucketRecencyLabel_typo(entry) ==
    IF IsZero(entry.LastContact) THEN "unknown"
    ELSE LET gap == entry.GapDays
         IN IF gap <= 7 THEN "0_7"
            ELSE IF gap <= 30 THEN "8_31"
            ELSE IF gap <= 60 THEN "31_60"
            ELSE IF gap <= 90 THEN "61_90"
            ELSE IF gap <= 180 THEN "91_180"
            ELSE "181_plus"

bucketRecencyLabel(entry) ==
    IF IsZero(entry.LastContact) THEN "unknown"
    ELSE LET gap == entry.GapDays
         IN IF gap <= 7 THEN "0_7"
            ELSE IF gap <= 30 THEN "8_30"
            ELSE IF gap <= 60 THEN "31_60"
            ELSE IF gap <= 90 THEN "61_90"
            ELSE IF gap <= 180 THEN "91_180"
            ELSE "181_plus"

\* number of entries of a sequence that satisfy a test, written per use
TierCount(entries, tier) == Cardinality({i \in DOMAIN entries : entries[i].Tier = tier})

countTiers(entries) ==
    [onTrack |-> TierCount(entries, "on_track"),
     dueSoon |-> TierCount(entries, "due_soon"),
     overdue |-> TierCount(entries, "overdue"),
     critical |-> TierCount(entries, "critical")]

buildDueSummary(entries, asOf) ==
    [idx \in DOMAIN dueBucketDefinitions |->
        [Label |-> dueBucketDefinitions[idx].Label,
         MinDays |-> dueBucketDefinitions[idx].MinDays,
         MaxDays |-> dueBucketDefinitions[idx].MaxDays,
         Count |-> Cardinality({i \in DOMAIN entries :
                      bucketDueLabel(entries[i].NextDueDate, asOf)
                          = dueBucketDefinitions[idx].Label})]]

buildRecencySummary(entries) ==
    [idx \in DOMAIN recencyBucketDefinitions |->
        [Label |-> recencyBucketDefinitions[idx].Label,
         MinDays |-> recencyBucketDefinitions[idx].MinDays,
         MaxDays |-> recencyBucketDefinitions[idx].MaxDays,
         Count |-> Cardinality({i \in DOMAIN entries :
                      bucketRecencyLabel(entries[i])
                          = recencyBucketDefinitions[idx].Label})]]

RECURSIVE SumSeq(_)
SumSeq(values) == IF values = <<>> THEN 0 ELSE Head(values) + SumSeq(Tail(values))

RECURSIVE InsertInt(_, _)
InsertInt(sorted, v) ==
    IF sorted = <<>> THEN <<v>>
    ELSE IF v < Head(sorted) THEN <<v>> \o sorted
    ELSE <<Head(sorted)>> \o InsertInt(Tail(sorted), v)

\* sort.Ints
RECURSIVE SortInts(_)
SortInts(values) ==
    IF values = <<>> THEN <<>> ELSE InsertInt(SortInts(Tail(values)), Head(values))

\* avg and median in tenths
summarizeGaps(gaps) ==
    IF Len(gaps) = 0 THEN [avg |-> 0, median |-> 0, max |-> 0]
    ELSE LET copyValues == SortInts(gaps)
             n == Len(copyValues)
             mid == n \div 2
         IN [avg |-> round1(SumSeq(copyValues), n),
             median |-> IF n % 2 = 0
                        THEN round1(copyValues[mid] + copyValues[mid + 1], 2)
                        ELSE round1(copyValues[mid + 1], 1),
             max |-> copyValues[n]]

\* the sequences that range over a Go map can visit its keys in
Perms(S) ==
    {f \in [1..Cardinality(S) -> S] : \A x \in S : \E i \in DOMAIN f : f[i] = x}

\* sort.Slice with GapDays descending (main.go:433-435); on the short
\* slices of this model sort.Slice is an insertion sort, which keeps the
\* order of entries with equal gaps
RECURSIVE InsertByGap(_, _)
InsertByGap(sorted, e) ==
    IF sorted = <<>> THEN <<e>>
    ELSE IF e.GapDays > sorted[Len(sorted)].GapDays
         THEN InsertByGap(SubSeq(sorted, 1, Len(sorted) - 1), e)
                  \o <<sorted[Len(sorted)]>>
         ELSE sorted \o <<e>>

RECURSIVE SortByGap(_)
SortByGap(entries) ==
    IF entries = <<>> THEN <<>>
    ELSE InsertByGap(SortByGap(SubSeq(entries, 1, Len(entries) - 1)),
                     entries[Len(entries)])

\* the empty program kept as the key
programKeyOf_keepsEmpty(summary) == summary.Program

\* programKey (main.go:426-429)
programKeyOf(summary) == IF summary.Program = "" THEN "Unassigned" ELSE summary.Program

RECURSIVE SelectProgram(_, _)
SelectProgram(entries, key) ==
    IF entries = <<>> THEN <<>>
    ELSE IF programKeyOf(Head(entries)) = key
         THEN <<Head(entries)>> \o SelectProgram(Tail(entries), key)
         ELSE SelectProgram(Tail(entries), key)

\* one entry of buildProgramSummary (main.go:490-512); averages in tenths
programEntry(program, entries) ==
    LET tiers == countTiers(entries)
        gaps == [i \in DOMAIN entries |-> entries[i].GapDays]
        missed == [i \in DOMAIN entries |-> entries[i].MissedCadences]
    IN [Program |-> program,
        Scholars |-> Len(entries),
        AvgGapDays |-> summarizeGaps(gaps).avg,
        AvgMissedCadences |-> IF Len(entries) > 0
                              THEN round1(SumSeq(missed), Len(entries)) ELSE 0,
        OverdueCount |-> tiers.overdue,
        CriticalCount |-> tiers.critical,
        OnTrackCount |-> tiers.onTrack,
        DueSoonCount |-> tiers.dueSoon]

\* sort.Slice with OverdueCount+CriticalCount descending (main.go:444-446)
RECURSIVE InsertByRisk(_, _)
InsertByRisk(sorted, e) ==
    IF sorted = <<>> THEN <<e>>
    ELSE IF e.OverdueCount + e.CriticalCount
              > sorted[Len(sorted)].OverdueCount + sorted[Len(sorted)].CriticalCount
         THEN InsertByRisk(SubSeq(sorted, 1, Len(sorted) - 1), e)
                  \o <<sorted[Len(sorted)]>>
         ELSE sorted \o <<e>>

RECURSIVE SortByRisk(_)
SortByRisk(entries) ==
    IF entries = <<>> THEN <<>>
    ELSE InsertByRisk(SortByRisk(SubSeq(entries, 1, Len(entries) - 1)),
                      entries[Len(entries)])

\* buildProgramSummary over the buckets of `entries`, the map visited in the
\* order programOrder
buildProgramSummary(entries, programOrder) ==
    [i \in DOMAIN programOrder |->
        programEntry(programOrder[i], SelectProgram(entries, programOrder[i]))]

\* map[string]int counting the values of a field that are not skipped
CountMap(keys) ==
    [k \in {keys[i] : i \in DOMAIN keys} \ {""} |->
        Cardinality({i \in DOMAIN keys : keys[i] = k})]

\* the slice cut one entry short
topGapsOf_short(summaries, topN) ==
    IF topN > 0 /\ Len(summaries) >= topN
    THEN SubSeq(summaries, 1, topN - 1) ELSE summaries

\* topGaps (main.go:437-440)
topGapsOf(summaries, topN) ==
    IF topN > 0 /\ Len(summaries) > topN
    THEN SubSeq(summaries, 1, topN) ELSE summaries

NoReport == [built |-> FALSE]

\* the part of buildReport after the read loop (main.go:367-484): the stats
\* map is visited in the order scholarOrder, the program buckets in the
\* order programOrder
makeReport(st, asOf, cadenceDays, dueWindowDays, topN, scholarOrder, programOrder) ==
    LET visited == [i \in DOMAIN scholarOrder |->
                      Summarize(st.stats[scholarOrder[i]], asOf, cadenceDays,
                                dueWindowDays)]
        gapValues == [i \in DOMAIN visited |-> visited[i].GapDays]
        missedValues == [i \in DOMAIN visited |-> visited[i].MissedCadences]
        summaries == SortByGap(visited)
        topGaps == topGapsOf(summaries, topN)
        unsorted == buildProgramSummary(visited, programOrder)
        programSummary == IF Len(unsorted) > 1 THEN SortByRisk(unsorted) ELSE unsorted
        gapsOut == summarizeGaps(gapValues)
        tiers == countTiers(summaries)
    IN [built |-> TRUE,
        Summary |->
           [AsOf |-> FormatDate(asOf),
            CadenceDays |-> cadenceDays,
            DueWindowDays |-> dueWindowDays,
            TotalScholars |-> Len(summaries),
            AvgGapDays |-> gapsOut.avg,
            MedianGapDays |-> gapsOut.median,
            MaxGapDays |-> gapsOut.max,
            AvgMissedCadences |-> IF Len(summaries) > 0
                                  THEN round1(SumSeq(missedValues), Len(summaries))
                                  ELSE 0,
            MaxMissedCadences |->
                LET seen == {missedValues[i] : i \in DOMAIN missedValues} \cup {0}
                IN CHOOSE m \in seen : \A v \in seen : v <= m,
            OnTrackCount |-> tiers.onTrack,
            DueSoonCount |-> tiers.dueSoon,
            OverdueCount |-> tiers.overdue,
            CriticalCount |-> tiers.critical,
            InvalidRows |-> st.invalidRows,
            FutureRows |-> st.futureRows],
        ProgramSummary |-> programSummary,
        ChannelSummary |-> CountMap([i \in DOMAIN visited |-> visited[i].LastChannel]),
        StatusSummary |->
            CountMap([i \in DOMAIN visited |->
                        IF TrimSpace(visited[i].LastStatus) = "" THEN "Unknown"
                        ELSE TrimSpace(visited[i].LastStatus)]),
        DueSummary |-> buildDueSummary(summaries, dateOnly(asOf)),
        RecencySummary |-> buildRecencySummary(summaries),
        TopGaps |-> topGaps,
        Scholars |-> summaries]

----------------------------------------------------------------------------
(* Inputs *)

AsOf == [day |-> AsOfDay, sec |-> 0]

\* cadence and due window as main derives them (main.go:144-161)
CadencePolicies == {<<30, 15>>, <<15, 5>>}

\* --top: none kept back, one kept, as many as there can be scholars, and a
\* negative number
Policies ==
    {[asOf |-> AsOf, cadenceDays |-> cw[1], dueWindowDays |-> cw[2],
      topN |-> n, dedupeDay |-> d] :
        cw \in CadencePolicies, n \in {0}, d \in BOOLEAN}
    \cup {[asOf |-> AsOf, cadenceDays |-> 30, dueWindowDays |-> 15,
           topN |-> n, dedupeDay |-> FALSE] : n \in {-1, 1, 2}}

\* 10:00:00 as a second of the day
TenOClock == 10 * 60 * 60

\* Date strings of each kind: unparseable, after the as-of date, on the
\* as-of date with a time of day, and on or before the as-of date.  The
\* dates lie within 31 days of the as-of date: the date 0001-01-01, which
\* parses to the zero Time, and zone offsets other than Z are not drawn.
BadDates == {EmptyDate, [form |-> "other", day |-> 0, sec |-> 0]}

LaterDates == {[form |-> "2006-01-02", day |-> AsOfDay + 1, sec |-> 0]}

SameDayTimes == {[form |-> "2006-01-02 15:04:05", day |-> AsOfDay, sec |-> TenOClock]}

PastDates ==
    { [form |-> "2006/01/02", day |-> AsOfDay, sec |-> 0],
      [form |-> "2006-01-02", day |-> AsOfDay - 22, sec |-> 0],
      [form |-> "01/02/2006", day |-> AsOfDay - 31, sec |-> 0] }

\* the data records a run of Spec can read
Records ==
    [scholar_id : {"", "  "}, contact_date : {CHOOSE d \in PastDates : d.day = AsOfDay},
     channel : {"Email"}, program : {"Alpha"}, status : {"Reached"}]
    \cup [scholar_id : {"S-1"}, contact_date : BadDates,
          channel : {"Email"}, program : {"Alpha"}, status : {"Reached"}]
    \cup [scholar_id : {"S-1", " S-2 "}, contact_date : LaterDates \cup SameDayTimes,
          channel : {"Email"}, program : {"Alpha"}, status : {"Reached"}]
    \cup [scholar_id : {"S-1", " S-2 "}, contact_date : PastDates,
          channel : {"Email"}, program : {"Alpha"}, status : {"Reached"}]
    \cup [scholar_id : {"S-1", " S-2 "},
          contact_date : {d \in PastDates : d.day < AsOfDay},
          channel : {""}, program : {""}, status : {""}]

\* the data records a run of SpecProgram can read: two scholars, programs
\* given or blank, a record dated after as-of and a record dated
\* 0001-01-01, which time.Parse returns as the zero Time
ProgramRecords ==
    [scholar_id : {"S-1", " S-2 "},
     contact_date : {[form |-> "2006-01-02", day |-> AsOfDay - 22, sec |-> 0]},
     channel : {"Email"}, program : {"  ", "Alpha", "Beta"}, status : {"Reached"}]
    \cup [scholar_id : {"S-1", " S-2 "},
          contact_date : {[form |-> "2006-01-02", day |-> AsOfDay + 1, sec |-> 0]},
          channel : {"Email"}, program : {"Gamma"}, status : {"Reached"}]
    \cup [scholar_id : {"S-1"},
          contact_date : {[form |-> "2006-01-02", day |-> ZeroTime.day, sec |-> 0]},
          channel : {"Email"}, program : {"Alpha"}, status : {"Reached"}]

\* the data records a run of SpecOrder can read: two scholars, a date with
\* and without a time of day, the date 0001-01-01, a record dated after
\* as-of and a record without a scholar id
OrderRecords ==
    [scholar_id : {"S-1"},
     contact_date : {[form |-> "2006-01-02", day |-> AsOfDay - 31, sec |-> 0],
                     [form |-> "2006-01-02T15:04:05", day |-> AsOfDay - 31,
                      sec |-> TenOClock],
                     [form |-> "2006-01-02", day |-> AsOfDay - 22, sec |-> 0],
                     [form |-> "2006-01-02", day |-> ZeroTime.day, sec |-> 0],
                     [form |-> "2006-01-02", day |-> AsOfDay + 1, sec |-> 0]},
     channel : {"Email"}, program : {"Alpha"}, status : {"Reached"}]
    \cup [scholar_id : {" S-2 ", ""},
          contact_date : {[form |-> "2006-01-02", day |-> AsOfDay - 22, sec |-> 0]},
          channel : {"Phone"}, program : {"Beta"}, status : {"Voicemail"}]

\* the data records a run of SpecTempo can read: one scholar, with times of
\* day on some of the dates
TempoDates ==
    PastDates \cup
    { [form |-> "2006-01-02T15:04:05", day |-> AsOfDay - 31, sec |-> TenOClock] }

TempoRecords ==
    [scholar_id : {"S-1"}, contact_date : TempoDates,
     channel : {"Email"}, program : {"Alpha"}, status : {"Reached"}]
    \cup [scholar_id : {"S-1"}, contact_date : TempoDates,
          channel : {"Phone"}, program : {"Alpha"}, status : {"Voicemail"}]

\* the header row, by the normalised names of its columns
Headers ==
    { <<"scholarid", "contactdate", "channel", "program", "status">>,
      <<"studentid", "date", "method", "cohort", "outcome">>,
      <<"contactdate", "channel">>,
      <<"scholarid", "program">> }

\* findColumn(colMap, names): whether one of the names is a column
findColumn(headers, names) == \E i \in DOMAIN headers : headers[i] \in names

----------------------------------------------------------------------------
(* History kept for the properties *)

\* the scholar id and the parsed date of a record
RowID(record) == TrimSpace(record.scholar_id)

RowForms == {Layouts[i] : i \in DOMAIN Layouts}

\* the record has no scholar id, or its date is empty or in no accepted layout
RowIsInvalid(record) == RowID(record) = "" \/ record.contact_date.form \notin RowForms

\* the record is valid and its calendar date is after the as-of calendar date
RowDatedAfter(record, asOf) ==
    ~RowIsInvalid(record) /\ record.contact_date.day > asOf.day

NoGhost ==
    [accepted |-> EmptyMap, invalidSeen |-> 0, laterSeen |-> 0, onTime |-> {},
     afterInvalid |-> FALSE, order |-> <<>>, latest |-> EmptyMap,
     programs |-> EmptyMap]

\* What one pass of the loop body adds to the history.
\*   accepted[id]  the parsed dates of the records of id that neither counter
\*                 counted, in input order
\*   invalidSeen   the number of invalid records read
\*   laterSeen     the number of valid records read that are dated after as-of
\*   onTime        the scholars with a valid record not dated after as-of
\*   afterInvalid  a record was accepted after an invalid one had been read
\*   order         the scholars in the order of their first accepted record
\*   latest[id]    the day, channel and status of the accepted record of id
\*                 with the latest calendar date, the last such record in
\*                 input order when several share that date
\*   programs[id]  the program values other than "" of the accepted records
\*                 of id, each once, in the order of their first appearance
Observe(g, record, asOf, before, after) ==
    LET id == RowID(record)
        isAccepted == after.invalidRows = before.invalidRows
                      /\ after.futureRows = before.futureRows
        old == IF id \in DOMAIN g.accepted THEN g.accepted[id] ELSE <<>>
    IN [accepted |-> IF isAccepted
                     THEN MapPut(g.accepted, id,
                                 Append(old, parseDate(record.contact_date).t))
                     ELSE g.accepted,
        invalidSeen |-> g.invalidSeen + (IF RowIsInvalid(record) THEN 1 ELSE 0),
        laterSeen |-> g.laterSeen + (IF RowDatedAfter(record, asOf) THEN 1 ELSE 0),
        onTime |-> IF ~RowIsInvalid(record) /\ ~RowDatedAfter(record, asOf)
                   THEN g.onTime \cup {id} ELSE g.onTime,
        afterInvalid |-> g.afterInvalid \/ (isAccepted /\ g.invalidSeen > 0),
        order |-> IF isAccepted /\ id \notin DOMAIN g.accepted
                  THEN Append(g.order, id) ELSE g.order,
        latest |-> IF isAccepted
                      /\ (id \in DOMAIN g.latest
                            => record.contact_date.day >= g.latest[id].day)
                   THEN MapPut(g.latest, id,
                               [day |-> record.contact_date.day,
                                channel |-> TrimSpace(record.channel),
                                status |-> TrimSpace(record.status)])
                   ELSE g.latest,
        programs |-> LET given == IF id \in DOMAIN g.programs
                                  THEN g.programs[id] ELSE <<>>
                    IN IF isAccepted /\ TrimSpace(record.program) # ""
                          /\ \A i \in DOMAIN given : given[i] # TrimSpace(record.program)
                       THEN MapPut(g.programs, id,
                                   Append(given, TrimSpace(record.program)))
                       ELSE g.programs]

----------------------------------------------------------------------------
(* buildReport as a state machine *)

NoProbe == [applied |-> "off"]

\* buildReport called on its own, as the tests call it: no command line
NoFlags == [given |-> FALSE]

\* nothing opened, printed or written yet, no error
NoOutputs == [opened |-> FALSE, printed |-> FALSE, files |-> EmptyMap, error |-> ""]

\* no database in use
NoDB == [inUse |-> FALSE]

Init ==
    /\ pc = "open"
    /\ policy \in Policies
    /\ stats = EmptyMap
    /\ invalidRows = 0
    /\ futureRows = 0
    /\ nread = 0
    /\ report = NoReport
    /\ ghost = NoGhost
    /\ probe = NoProbe
    /\ flags = NoFlags
    /\ out = NoOutputs
    /\ db = NoDB

\* opening the file and reading the header (main.go:250-281)
Open ==
    /\ pc = "open"
    /\ \/ pc' = "failed"    \* os.Open fails, or the header cannot be read
       \/ \E headers \in Headers :
            pc' = IF ~findColumn(headers, {"scholarid", "scholar", "studentid"})
                  THEN "failed"
                  ELSE IF ~findColumn(headers, {"contactdate", "contactedat", "date",
                                                "touchpointdate", "touchpoint"})
                  THEN "failed"
                  ELSE "reading"
    /\ out' = [out EXCEPT !.opened = TRUE]
    /\ UNCHANGED <<policy, stats, invalidRows, futureRows, nread, report, ghost, probe,
                   flags, db>>

\* one record read and folded (main.go:284-364)
Ingest(record) ==
    LET before == [stats |-> stats, invalidRows |-> invalidRows,
                   futureRows |-> futureRows]
        after == ProcessRecord(before, record, dateOnly(policy.asOf), policy.dedupeDay)
    IN /\ stats' = after.stats
       /\ invalidRows' = after.invalidRows
       /\ futureRows' = after.futureRows
       /\ nread' = nread + 1
       /\ ghost' = Observe(ghost, record, policy.asOf, before, after)
       /\ UNCHANGED <<pc, policy, report, probe, flags, out, db>>

ReadRow ==
    /\ pc = "reading"
    /\ nread < MaxRows
    /\ \E record \in Records : Ingest(record)

\* reader.Read fails with an error other than io.EOF (main.go:285-290)
ReadError ==
    /\ pc = "reading"
    /\ pc' = "failed"
    /\ UNCHANGED <<policy, stats, invalidRows, futureRows, nread, report, ghost, probe,
                   flags, out, db>>

\* the keys of programBuckets (main.go:426-430)
ProgramKeys ==
    {IF stats[id].Program = "" THEN "Unassigned" ELSE stats[id].Program :
        id \in DOMAIN stats}

\* io.EOF: the summaries and the report (main.go:286-288, 367-484)
Finish ==
    /\ pc = "reading"
    /\ \E scholarOrder \in Perms(DOMAIN stats), programOrder \in Perms(ProgramKeys) :
         report' = makeReport([stats |-> stats, invalidRows |-> invalidRows,
                               futureRows |-> futureRows],
                              policy.asOf, policy.cadenceDays, policy.dueWindowDays,
                              policy.topN, scholarOrder, programOrder)
    /\ pc' = "done"
    /\ UNCHANGED <<policy, stats, invalidRows, futureRows, nread, ghost, probe,
                   flags, out, db>>

Next == Open \/ ReadRow \/ ReadError \/ Finish

Spec == Init /\ [][Next]_vars

\* the same run on the records of one scholar
ReadContact ==
    /\ pc = "reading"
    /\ nread < MaxContacts
    /\ \E record \in TempoRecords : Ingest(record)

\* the same run on records that differ in their program
ReadProgram ==
    /\ pc = "reading"
    /\ nread < MaxRows
    /\ \E record \in ProgramRecords : Ingest(record)

NextProgram == Open \/ ReadProgram \/ ReadError \/ Finish

SpecProgram == Init /\ [][NextProgram]_vars

\* the read loop on the records rows, from the first to the last
\* (main.go:283-365)
RECURSIVE ReadAll(_, _, _, _)
ReadAll(st, rows, asOfDate, dedupeDay) ==
    IF rows = <<>> THEN st
    ELSE ReadAll(ProcessRecord(st, Head(rows), asOfDate, dedupeDay), Tail(rows),
                 asOfDate, dedupeDay)

\* the keys of programBuckets for the accumulators in scholars
\* (main.go:426-430)
ProgramKeysOf(scholars) ==
    {IF scholars[id].Program = "" THEN "Unassigned" ELSE scholars[id].Program :
        id \in DOMAIN scholars}

\* the reports buildReport can return for the records rows
ReportsOf(rows, pol) ==
    LET st == ReadAll([stats |-> EmptyMap, invalidRows |-> 0, futureRows |-> 0],
                      rows, dateOnly(pol.asOf), pol.dedupeDay)
    IN {makeReport(st, pol.asOf, pol.cadenceDays, pol.dueWindowDays, pol.topN,
                   scholarOrder, programOrder) :
           scholarOrder \in Perms(DOMAIN st.stats),
           programOrder \in Perms(ProgramKeysOf(st.stats))}

\* two runs of buildReport, on a file and on the same records in another
\* order
InitOrder ==
    /\ pc = "order"
    /\ policy \in {p \in Policies : p.topN = 0 /\ p.cadenceDays = 30}
    /\ stats = EmptyMap
    /\ invalidRows = 0
    /\ futureRows = 0
    /\ nread = 0
    /\ report = NoReport
    /\ ghost = NoGhost
    /\ probe \in [applied : {"none"},
                  rows : UNION {[1..n -> OrderRecords] : n \in 1..MaxRows}]
    /\ flags = NoFlags
    /\ out = NoOutputs
    /\ db = NoDB

Reorder ==
    /\ pc = "order"
    /\ probe.applied = "none"
    /\ \E order \in Perms(DOMAIN probe.rows) :
         \E first \in ReportsOf(probe.rows, policy),
            second \in ReportsOf([i \in DOMAIN order |-> probe.rows[order[i]]], policy) :
            probe' = [applied |-> "reorder", rows |-> probe.rows, order |-> order,
                      first |-> first, second |-> second]
    /\ UNCHANGED <<pc, policy, stats, invalidRows, futureRows, nread, report, ghost,
                   flags, out, db>>

NextOrder == Reorder

SpecOrder == InitOrder /\ [][NextOrder]_vars

NextTempo == Open \/ ReadContact \/ ReadError \/ Finish

SpecTempo == Init /\ [][NextTempo]_vars

----------------------------------------------------------------------------
(* The pure functions applied on their own *)

ProbeCadences == {1, 2, 30, 90}

ProbeWindows == {1, 15, 45, 90}

\* a last contact `gap` days before the as-of date, at a time of day or not
InitProbe ==
    /\ pc = "probe"
    /\ policy \in {p \in Policies : p.topN = 0 /\ ~p.dedupeDay
                                   /\ p.cadenceDays = 30}
    /\ stats = EmptyMap
    /\ invalidRows = 0
    /\ futureRows = 0
    /\ nread = 0
    /\ report = NoReport
    /\ ghost = NoGhost
    /\ probe \in [applied : {"none"}, gap : 0..MaxGap, sec : {0, TenOClock},
                  cadenceDays : ProbeCadences, dueWindowDays : ProbeWindows]
    /\ flags = NoFlags
    /\ out = NoOutputs
    /\ db = NoDB

\* gapTier and missedCadences on the drawn numbers
Classify ==
    /\ pc = "probe"
    /\ probe.applied = "none"
    /\ probe' = [applied |-> "classify", gap |-> probe.gap, sec |-> probe.sec,
                 cadenceDays |-> probe.cadenceDays,
                 dueWindowDays |-> probe.dueWindowDays,
                 tier |-> gapTier(probe.gap, probe.cadenceDays, probe.dueWindowDays),
                 missed |-> missedCadences(probe.gap, probe.cadenceDays)]
    /\ UNCHANGED <<pc, policy, stats, invalidRows, futureRows, nread, report, ghost,
                   flags, out, db>>

\* the summary and the due bucket of a scholar whose one record is dated
\* `gap` days before the as-of date: the loop body, then main.go:376-411 and
\* bucketDueLabel as buildDueSummary calls it
SummarizeOne ==
    /\ pc = "probe"
    /\ probe.applied = "none"
    /\ LET record == [scholar_id |-> "S-1",
                      contact_date |-> [form |-> "2006-01-02 15:04:05",
                                        day |-> AsOfDay - probe.gap, sec |-> probe.sec],
                      channel |-> "Email", program |-> "Alpha", status |-> "Reached"]
           after == ProcessRecord([stats |-> EmptyMap, invalidRows |-> 0,
                                   futureRows |-> 0],
                                  record, dateOnly(policy.asOf), FALSE)
           kept == "S-1" \in DOMAIN after.stats
           summary == Summarize(after.stats["S-1"], policy.asOf, probe.cadenceDays,
                                probe.dueWindowDays)
       IN probe' = [applied |-> IF kept THEN "summarize" ELSE "skipped",
                    gap |-> probe.gap, sec |-> probe.sec,
                    cadenceDays |-> probe.cadenceDays,
                    dueWindowDays |-> probe.dueWindowDays,
                    summary |-> IF kept THEN summary ELSE NoReport,
                    bucket |-> IF kept
                               THEN bucketDueLabel(summary.NextDueDate,
                                                   dateOnly(policy.asOf))
                               ELSE ""]
    /\ UNCHANGED <<pc, policy, stats, invalidRows, futureRows, nread, report, ghost,
                   flags, out, db>>

NextProbe == Classify \/ SummarizeOne

SpecProbe == InitProbe /\ [][NextProbe]_vars

----------------------------------------------------------------------------
(* main: the command line, the report and the output files *)

\* data records read by one run of main under SpecMain
MaxInputRows == 2

\* strings.ToLower on the strings that occur as --min-tier
ToLower(s) ==
    CASE s = "OVERDUE" -> "overdue"
      [] OTHER -> s

\* the ranks of due_soon and overdue exchanged
tierRank_swapped(value) ==
    LET name == ToLower(TrimSpace(value))
    IN CASE name = "due_soon" -> [rank |-> 2, ok |-> TRUE]
         [] name = "overdue" -> [rank |-> 1, ok |-> TRUE]
         [] name = "critical" -> [rank |-> 3, ok |-> TRUE]
         [] name = "on_track" -> [rank |-> 0, ok |-> TRUE]
         [] OTHER -> [rank |-> 0, ok |-> FALSE]

tierRank(value) ==
    LET name == ToLower(TrimSpace(value))
    IN CASE name = "due_soon" -> [rank |-> 1, ok |-> TRUE]
         [] name = "overdue" -> [rank |-> 2, ok |-> TRUE]
         [] name = "critical" -> [rank |-> 3, ok |-> TRUE]
         [] name = "on_track" -> [rank |-> 0, ok |-> TRUE]
         [] OTHER -> [rank |-> 0, ok |-> FALSE]

\* formatDate: the empty string is represented by 0
formatDate(value) == IF IsZero(value) THEN 0 ELSE FormatDate(value)

\* one record of the alerts CSV (main.go:1257-1273)
alertRecord(entry) ==
    [scholar_id |-> entry.ScholarID,
     program |-> entry.Program,
     last_contact |-> formatDate(entry.LastContact),
     first_contact |-> formatDate(entry.FirstContact),
     next_due_date |-> formatDate(entry.NextDueDate),
     gap_days |-> entry.GapDays,
     days_past_due |-> entry.DaysPastDue,
     missed_cadences |-> entry.MissedCadences,
     days_since_first_contact |-> entry.DaysSinceFirst,
     avg_interval_days |-> entry.AvgIntervalDays,
     contacts_per_month |-> entry.ContactsPerMonth,
     tier |-> entry.Tier,
     last_channel |-> entry.LastChannel,
     last_status |-> entry.LastStatus,
     contact_count |-> entry.ContactCount]

\* the records written by the loop of writeAlertsCSV (main.go:1252-1277)
RECURSIVE alertRecords(_, _)
alertRecords(scholars, threshold) ==
    IF scholars = <<>> THEN <<>>
    ELSE IF tierRank(Head(scholars).Tier).rank < threshold
         THEN alertRecords(Tail(scholars), threshold)
         ELSE <<alertRecord(Head(scholars))>> \o alertRecords(Tail(scholars), threshold)

\* writeAlertsCSV when os.Create succeeds: the error it returns and the
\* records of the file it leaves, after the header
writeAlertsCSV(rep, minTier) ==
    LET threshold == tierRank(minTier)
    IN IF ~threshold.ok
       THEN [error |-> "min_tier", created |-> FALSE, records |-> <<>>]
       ELSE [error |-> "", created |-> TRUE,
             records |-> alertRecords(rep.Scholars, threshold.rank)]

\* the values of --min-tier: the default, the documented names, a name in
\* capitals and a name that is no tier
MinTiers == {"overdue", "due_soon", "on_track", "critical", "OVERDUE", "urgent"}

\* the date 2026-02-01 as --as-of
AsOfText == [form |-> "2006-01-02", day |-> AsOfDay, sec |-> 0]

\* time.Now() on the as-of day
Now == [day |-> AsOfDay, sec |-> TenOClock]

\* the command lines of a run of main
MainFlags ==
    [given : {TRUE}, input : {"", "touchpoints.csv"}, cadence : {-1, 0, 15},
     asOf : {EmptyDate, AsOfText, [form |-> "other", day |-> 0, sec |-> 0]},
     dueWindow : {0, 5}, minTier : {"overdue"}, alerts : {""},
     json : {"out.json"}, programs : {""}]
    \cup [given : {TRUE}, input : {"touchpoints.csv"}, cadence : {0, 15},
          asOf : {AsOfText}, dueWindow : {5}, minTier : MinTiers,
          alerts : {"", "alerts.csv"}, json : {"", "out.json"},
          programs : {""}]
    \cup [given : {TRUE}, input : {"touchpoints.csv"}, cadence : {15},
          asOf : {AsOfText}, dueWindow : {5}, minTier : {"overdue", "urgent"},
          alerts : {"alerts.csv"}, json : {""}, programs : {"programs.csv"}]
    \cup [given : {TRUE}, input : {"touchpoints.csv"}, cadence : {15},
          asOf : {AsOfText}, dueWindow : {15, 20}, minTier : {"overdue"},
          alerts : {""}, json : {""}, programs : {""}]

\* the data records a run of SpecMain can read: last contacts 0, 18, 22 and
\* 31 days before the as-of date
MainRecords ==
    [scholar_id : {"S-1"},
     contact_date : {[form |-> "2006-01-02", day |-> AsOfDay - g, sec |-> 0] :
                        g \in {0, 18, 22, 31}},
     channel : {"Email"}, program : {"Alpha"}, status : {"Reached"}]
    \cup [scholar_id : {"S-2"},
          contact_date : {[form |-> "2006-01-02", day |-> AsOfDay - g, sec |-> 0] :
                             g \in {22, 31}},
          channel : {"Phone"}, program : {""}, status : {""}]

\* buildReport not called yet
NoPolicy ==
    [asOf |-> ZeroTime, cadenceDays |-> 0, dueWindowDays |-> 0, topN |-> 0,
     dedupeDay |-> FALSE]

InitMain ==
    /\ pc = "flags"
    /\ flags \in MainFlags
    /\ policy = NoPolicy
    /\ stats = EmptyMap
    /\ invalidRows = 0
    /\ futureRows = 0
    /\ nread = 0
    /\ report = NoReport
    /\ ghost = NoGhost
    /\ probe = NoProbe
    /\ out = NoOutputs
    /\ db = NoDB

\* exitWithError(err)
Exit(error) ==
    /\ pc' = "exited"
    /\ out' = [out EXCEPT !.error = error]

\* the checks of the command line and the parameters of buildReport
\* (main.go:141-163)
CheckFlags ==
    /\ pc = "flags"
    /\ LET parsed == IF flags.asOf.form = "" THEN [ok |-> TRUE, t |-> Now]
                     ELSE parseDate(flags.asOf)
       IN IF flags.input = "" THEN Exit("input") /\ UNCHANGED policy
          ELSE IF flags.cadence <= 0 THEN Exit("cadence") /\ UNCHANGED policy
          ELSE IF ~parsed.ok THEN Exit("as_of") /\ UNCHANGED policy
          ELSE /\ policy' = [asOf |-> dateOnly(parsed.t),
                             cadenceDays |-> flags.cadence,
                             dueWindowDays |-> IF flags.dueWindow <= 0
                                               THEN (flags.cadence + 1) \div 2
                                               ELSE flags.dueWindow,
                             topN |-> 10,
                             dedupeDay |-> FALSE]
               /\ pc' = "open"
               /\ UNCHANGED out
    /\ UNCHANGED <<stats, invalidRows, futureRows, nread, report, ghost, probe,
                   flags, db>>

ReadInput ==
    /\ pc = "reading"
    /\ nread < MaxInputRows
    /\ \E record \in MainRecords : Ingest(record)

\* buildReport returned an error (main.go:164-166)
ExitOnBuildError ==
    /\ pc = "failed"
    /\ Exit("build")
    /\ UNCHANGED <<policy, stats, invalidRows, futureRows, nread, report, ghost,
                   probe, flags, db>>

\* printReport (main.go:168)
PrintReport ==
    /\ pc = "done"
    /\ pc' = "printed"
    /\ out' = [out EXCEPT !.printed = TRUE]
    /\ UNCHANGED <<policy, stats, invalidRows, futureRows, nread, report, ghost,
                   probe, flags, db>>

\* --json (main.go:170-175): os.WriteFile writes the file or fails
WriteJSON ==
    /\ pc = "printed"
    /\ IF flags.json = "" THEN pc' = "json" /\ UNCHANGED out
       ELSE \/ Exit("io")
            \/ /\ pc' = "json"
               /\ out' = [out EXCEPT !.files = MapPut(@, flags.json, <<"report">>)]
    /\ UNCHANGED <<policy, stats, invalidRows, futureRows, nread, report, ghost,
                   probe, flags, db>>

\* --alerts (main.go:177-182): writeAlertsCSV, where os.Create succeeds or
\* fails once the tier name has been accepted
WriteAlerts ==
    /\ pc = "json"
    /\ IF flags.alerts = "" THEN pc' = "alerts" /\ UNCHANGED out
       ELSE LET result == writeAlertsCSV(report, flags.minTier)
            IN IF result.error # "" THEN Exit(result.error)
               ELSE \/ Exit("io")
                    \/ /\ pc' = "alerts"
                       /\ out' = [out EXCEPT
                                     !.files = MapPut(@, flags.alerts, result.records)]
    /\ UNCHANGED <<policy, stats, invalidRows, futureRows, nread, report, ghost,
                   probe, flags, db>>

\* the summary CSVs (main.go:183-212); of their five flags the command
\* lines drawn here give --programs-csv only
WriteSummaries ==
    /\ pc = "alerts"
    /\ IF flags.programs = "" THEN pc' = "summaries" /\ UNCHANGED out
       ELSE \/ Exit("io")
            \/ /\ pc' = "summaries"
               /\ out' = [out EXCEPT
                             !.files = MapPut(@, flags.programs,
                                              [i \in DOMAIN report.ProgramSummary |->
                                                  report.ProgramSummary[i].Program])]
    /\ UNCHANGED <<policy, stats, invalidRows, futureRows, nread, report, ghost,
                   probe, flags, db>>

\* neither --db nor --init-db (main.go:214): main returns
Return ==
    /\ pc = "summaries"
    /\ pc' = "returned"
    /\ UNCHANGED <<policy, stats, invalidRows, futureRows, nread, report, ghost,
                   probe, flags, out, db>>

NextMain ==
    \/ CheckFlags
    \/ Open
    \/ ReadInput
    \/ ReadError
    \/ Finish
    \/ ExitOnBuildError
    \/ PrintReport
    \/ WriteJSON
    \/ WriteAlerts
    \/ WriteSummaries
    \/ Return

SpecMain == InitMain /\ [][NextMain]_vars

----------------------------------------------------------------------------
(* The database: seedDatabase, storeReportInDB and storeReportTx *)

\* invocations of main at work on the same schema at the same time
MaxInvocations == 2

Invocations == 1..MaxInvocations

\* a report of one scholar, as buildReport returns it
StoredReport ==
    LET record == [scholar_id |-> "S-1",
                   contact_date |-> [form |-> "2006-01-02", day |-> AsOfDay - 31,
                                     sec |-> 0],
                   channel |-> "Email", program |-> "Alpha", status |-> "Reached"]
        st == ProcessRecord([stats |-> EmptyMap, invalidRows |-> 0, futureRows |-> 0],
                            record, AsOf, FALSE)
    IN makeReport(st, AsOf, 30, 15, 10, <<"S-1">>, <<"Alpha">>)

\* the rows that the INSERT statements of storeReportTx write for the run
\* runID, in the order of the statements (main.go:829-992); the two maps
\* are visited in the orders channelOrder and statusOrder
insertRows(rep, runID, channelOrder, statusOrder) ==
    << [table |-> "audit_runs", run |-> runID, key |-> "run"] >>
    \o [i \in DOMAIN rep.Scholars |->
           [table |-> "audit_scholar_gaps", run |-> runID,
            key |-> rep.Scholars[i].ScholarID]]
    \o [i \in DOMAIN rep.ProgramSummary |->
           [table |-> "audit_program_summary", run |-> runID,
            key |-> rep.ProgramSummary[i].Program]]
    \o [i \in DOMAIN channelOrder |->
           [table |-> "audit_channel_summary", run |-> runID, key |-> channelOrder[i]]]
    \o [i \in DOMAIN statusOrder |->
           [table |-> "audit_status_summary", run |-> runID, key |-> statusOrder[i]]]
    \o [i \in DOMAIN rep.RecencySummary |->
           [table |-> "audit_recency_summary", run |-> runID,
            key |-> rep.RecencySummary[i].Label]]

\* the rollback left out: what the transaction wrote stays
rollbackTx_keeps(rows, pending) == rows \cup pending

\* tx.Rollback(): what the transaction wrote is discarded
rollbackTx(rows, pending) == rows

\* tx.Commit(): what the transaction wrote becomes visible at once
commitTx(rows, pending) == rows \cup pending

\* SELECT COUNT(*) FROM audit_runs: the committed runs
countRuns(rows) == Cardinality({r \in rows : r.table = "audit_runs"})

\* what an invocation was asked for: "seed" is --init-db, "store" is --db,
\* "both" is --init-db with --db
Asked == <<"seed", "store", "both">>

\* an invocation at main.go:219, the database URL found.
\* call is the function at work, "seed" for seedDatabase and "store" for
\* storeReportInDB; runID and error are what the call returns, the run id
\* "" being represented by 0; stored counts the runs the invocation has
\* committed
NewConnection(what) ==
    [pc |-> "connect", what |-> what, call |-> IF what = "store" THEN "store" ELSE "seed",
     todo |-> <<>>, pending |-> {}, executed |-> 0, runID |-> 0, error |-> "",
     stored |-> 0]

\* the --db step runs although the seed step inserted the report
storeAfterSeed_always(what, seeded) == what = "both"

\* whether main calls storeReportInDB after seedDatabase returned
\* (main.go:235-239)
storeAfterSeed(what, seeded) == what = "both" /\ ~seeded

\* return "", err after the transaction was rolled back, or before it began
Failed(c, error) ==
    [c EXCEPT !.pc = "returned", !.pending = {}, !.runID = 0, !.error = error]

InitDB ==
    /\ pc = "database"
    /\ policy = NoPolicy
    /\ stats = EmptyMap
    /\ invalidRows = 0
    /\ futureRows = 0
    /\ nread = 0
    /\ report = StoredReport
    /\ ghost = NoGhost
    /\ probe = NoProbe
    /\ flags = NoFlags
    /\ out = NoOutputs
    /\ \E what \in [Invocations -> DOMAIN Asked] :
          \* invocations are interchangeable: one numbering of each mix
          /\ \A p, q \in Invocations : p < q => what[p] <= what[q]
          /\ db = [inUse |-> TRUE, rows |-> {},
                   conn |-> [p \in Invocations |-> NewConnection(Asked[what[p]])]]


\* sanitizeSchema, sql.Open, PingContext and ensureSchema (main.go:752-772,
\* 787-807): each can fail, and none writes a row
Connect(p) ==
    /\ db.inUse
    /\ db.conn[p].pc = "connect"
    /\ \/ db' = [db EXCEPT !.conn[p] = Failed(@, "connect")]
       \/ db' = [db EXCEPT !.conn[p].pc =
                     IF db.conn[p].call = "seed" THEN "count" ELSE "store"]
    /\ UNCHANGED <<pc, policy, stats, invalidRows, futureRows, nread, report, ghost,
                   probe, flags, out>>

\* the count of seedDatabase and what follows from it (main.go:774-781)
CountRuns(p) ==
    /\ db.inUse
    /\ db.conn[p].pc = "count"
    /\ \/ db' = [db EXCEPT !.conn[p] = Failed(@, "query")]
       \/ db' = [db EXCEPT !.conn[p] =
                     IF countRuns(db.rows) > 0
                     THEN [@ EXCEPT !.pc = "returned"]
                     ELSE [@ EXCEPT !.pc = "store"]]
    /\ UNCHANGED <<pc, policy, stats, invalidRows, futureRows, nread, report, ghost,
                   probe, flags, out>>

\* uuid.New() and db.BeginTx (main.go:813-822); the run id is a fresh value,
\* here the number of the invocation
BeginTx(p) ==
    /\ db.inUse
    /\ db.conn[p].pc = "store"
    /\ \/ db' = [db EXCEPT !.conn[p] = Failed(@, "begin")]
       \/ \E channelOrder \in Perms(DOMAIN report.ChannelSummary),
             statusOrder \in Perms(DOMAIN report.StatusSummary) :
             db' = [db EXCEPT !.conn[p] =
                       [@ EXCEPT !.pc = "tx",
                                 !.todo = insertRows(report, p, channelOrder,
                                                     statusOrder)]]
    /\ UNCHANGED <<pc, policy, stats, invalidRows, futureRows, nread, report, ghost,
                   probe, flags, out>>

\* one tx.ExecContext of storeReportTx (main.go:829-992).  The server takes
\* the statement or refuses it; on an error the transaction is rolled back
\* and the error returned.  (The INSERT into audit_runs names 17 columns,
\* 18 placeholders and 17 arguments, main.go:830-858: whether the server
\* takes a statement is left open here.)
ExecInsert(p) ==
    /\ db.inUse
    /\ db.conn[p].pc = "tx"
    /\ db.conn[p].todo # <<>>
    /\ \/ db' = [db EXCEPT !.conn[p] =
                     [@ EXCEPT !.pending = @ \cup {Head(db.conn[p].todo)},
                               !.todo = Tail(@),
                               !.executed = @ + 1]]
       \/ db' = [db EXCEPT !.rows = rollbackTx(@, db.conn[p].pending),
                           !.conn[p] = Failed(@, "insert")]
    /\ UNCHANGED <<pc, policy, stats, invalidRows, futureRows, nread, report, ghost,
                   probe, flags, out>>

\* tx.Commit() (main.go:994-997): the rows become visible together and the
\* run id is returned, or the commit fails, nothing of the transaction is
\* kept and the error is returned
Commit(p) ==
    /\ db.inUse
    /\ db.conn[p].pc = "tx"
    /\ db.conn[p].todo = <<>>
    /\ \/ db' = [db EXCEPT !.rows = commitTx(@, db.conn[p].pending),
                           !.conn[p] = [@ EXCEPT !.pc = "returned", !.pending = {},
                                                 !.runID = p, !.stored = @ + 1]]
       \/ db' = [db EXCEPT !.rows = rollbackTx(@, db.conn[p].pending),
                           !.conn[p] = Failed(@, "commit")]
    /\ UNCHANGED <<pc, policy, stats, invalidRows, futureRows, nread, report, ghost,
                   probe, flags, out>>

\* main after seedDatabase or storeReportInDB returned (main.go:226-245):
\* an error ends the invocation; a seed that returned a run id makes the
\* --db step a skip; otherwise --db calls storeReportInDB on a connection
\* of its own
AfterCall(p) ==
    /\ db.inUse
    /\ db.conn[p].pc = "returned"
    /\ LET c == db.conn[p]
           seeded == c.call = "seed" /\ c.runID # 0
       IN db' = [db EXCEPT !.conn[p] =
                    IF c.error # ""
                    THEN [c EXCEPT !.pc = "exited", !.todo = <<>>, !.executed = 0]
                    ELSE IF c.call = "seed" /\ storeAfterSeed(c.what, seeded)
                    THEN [c EXCEPT !.pc = "connect", !.call = "store", !.todo = <<>>,
                                   !.executed = 0, !.runID = 0]
                    ELSE [c EXCEPT !.pc = "finished"]]
    /\ UNCHANGED <<pc, policy, stats, invalidRows, futureRows, nread, report, ghost,
                   probe, flags, out>>

NextDB ==
    \E p \in Invocations :
        \/ AfterCall(p)
        \/ Connect(p)
        \/ CountRuns(p)
        \/ BeginTx(p)
        \/ ExecInsert(p)
        \/ Commit(p)

SpecDB == InitDB /\ [][NextDB]_vars

----------------------------------------------------------------------------
(* Properties *)

\* the scholars of the report
ReportIDs == {report.Scholars[i].ScholarID : i \in DOMAIN report.Scholars}

\* the calendar days of the accepted records of a scholar, in input order
AcceptedDays(id) == [i \in DOMAIN ghost.accepted[id] |-> ghost.accepted[id][i].day]

DistinctDays(id) == {AcceptedDays(id)[i] : i \in DOMAIN AcceptedDays(id)}

\* the number of contacts the scholar retains: one per accepted record, or
\* one per calendar date under dedupe_by_day
Retained(id) ==
    IF policy.dedupeDay THEN Cardinality(DistinctDays(id)) ELSE Len(AcceptedDays(id))

\* the sum of the whole-day differences between consecutive entries of the
\* retained dates sorted ascending: the latest day minus the earliest
SpanDays(id) ==
    LET days == DistinctDays(id)
    IN (CHOOSE hi \in days : \A d \in days : d <= hi)
       - (CHOOSE lo \in days : \A d \in days : lo <= d)

\* C1: in every report, OnTrackCount + DueSoonCount + OverdueCount +
\* CriticalCount equals TotalScholars
C1_TierCountsSumToTotal ==
    report.built =>
        /\ report.Summary.OnTrackCount + report.Summary.DueSoonCount
             + report.Summary.OverdueCount + report.Summary.CriticalCount
           = report.Summary.TotalScholars
        /\ report.Summary.TotalScholars = Cardinality(DOMAIN stats)

\* a report of two scholars in two different tiers above on_track
C1_Witness ==
    /\ report.built
    /\ report.Summary.TotalScholars = 2
    /\ report.Summary.OverdueCount = 1
    /\ report.Summary.CriticalCount = 1

\* C2: every ScholarSummary of a report has gap_days >= 0,
\* missed_cadences >= 0 and days_past_due >= 0
C2_NonNegative ==
    report.built =>
        \A i \in DOMAIN report.Scholars :
            /\ report.Scholars[i].GapDays >= 0
            /\ report.Scholars[i].MissedCadences >= 0
            /\ report.Scholars[i].DaysPastDue >= 0

\* a report with a scholar past its cadence
C2_Witness ==
    /\ report.built
    /\ \E i \in DOMAIN report.Scholars :
            /\ report.Scholars[i].GapDays > 0
            /\ report.Scholars[i].MissedCadences > 0
            /\ report.Scholars[i].DaysPastDue > 0

\* C3: gapTier(gap, cadence, due_window) is on_track if gap <= cadence,
\* otherwise due_soon if gap <= cadence + due_window, otherwise overdue if
\* gap <= 2*cadence, otherwise critical
C3_GapTierCascade ==
    probe.applied = "classify" =>
        LET gap == probe.gap
            c == probe.cadenceDays
            w == probe.dueWindowDays
        IN /\ probe.tier \in {"on_track", "due_soon", "overdue", "critical"}
           /\ probe.tier = "on_track" <=> gap <= c
           /\ probe.tier = "due_soon" <=> (gap > c /\ gap <= c + w)
           /\ probe.tier = "overdue" <=> (gap > c + w /\ gap <= 2 * c)
           /\ probe.tier = "critical" <=> (gap > c + w /\ gap > 2 * c)

\* gapTier applied to a gap on the upper bound of overdue
C3_Witness ==
    /\ probe.applied = "classify"
    /\ probe.tier = "overdue"
    /\ probe.gap = 2 * probe.cadenceDays

\* C4: missedCadences(gap, cadence) is 0 when gap <= cadence and otherwise
\* the ceiling of (gap - cadence) / cadence: the least m with
\* m * cadence >= gap - cadence
C4_MissedIsCeiling ==
    probe.applied = "classify" =>
        LET gap == probe.gap
            c == probe.cadenceDays
            m == probe.missed
        IN /\ gap <= c => m = 0
           /\ gap > c => /\ m * c >= gap - c
                         /\ (m - 1) * c < gap - c

\* missedCadences applied where the quotient is not whole
C4_Witness ==
    /\ probe.applied = "classify"
    /\ probe.missed = 2
    /\ (probe.gap - probe.cadenceDays) % probe.cadenceDays # 0

\* C5: a scholar's contact_count is the number of distinct calendar dates
\* among its accepted records with dedupe_by_day on, and the number of its
\* accepted records with dedupe_by_day off
C5_ContactCount ==
    /\ DOMAIN stats = DOMAIN ghost.accepted
    /\ \A id \in DOMAIN stats : stats[id].ContactCount = Retained(id)
    /\ report.built =>
          \A i \in DOMAIN report.Scholars :
              report.Scholars[i].ContactCount = Retained(report.Scholars[i].ScholarID)

\* records on days d, d, d+9 of one scholar, with dedupe_by_day on: 2 contacts
C5_Witness ==
    /\ report.built
    /\ policy.dedupeDay
    /\ "S-1" \in DOMAIN ghost.accepted
    /\ AcceptedDays("S-1") = <<AsOfDay - 31, AsOfDay - 31, AsOfDay - 22>>
    /\ \E i \in DOMAIN report.Scholars :
          /\ report.Scholars[i].ScholarID = "S-1"
          /\ report.Scholars[i].ContactCount = 2

\* C6 as stated: avg_interval_days is exactly the sum of the whole-day
\* differences between consecutive retained dates divided by the number of
\* retained contacts minus one, and 0 with fewer than 2 retained
C6_ExactQuotient ==
    report.built =>
        \A i \in DOMAIN report.Scholars :
            LET id == report.Scholars[i].ScholarID
                avg == report.Scholars[i].AvgIntervalDays
            IN IF Retained(id) < 2 THEN avg = 0
               ELSE avg * (Retained(id) - 1) = 10 * SpanDays(id)

\* C6 as amended: avg_interval_days is that quotient rounded to one decimal
\* place, halves away from zero, and 0 with fewer than 2 retained; same-day
\* repeats are retained with dedupe_by_day off and dropped with it on
C6_RoundedQuotient ==
    report.built =>
        \A i \in DOMAIN report.Scholars :
            LET id == report.Scholars[i].ScholarID
                avg == report.Scholars[i].AvgIntervalDays
                n == Retained(id) - 1
            IN IF Retained(id) < 2 THEN avg = 0
               ELSE /\ 2 * avg * n <= 20 * SpanDays(id) + n
                    /\ 20 * SpanDays(id) + n < 2 * (avg + 1) * n

\* four records on three dates with dedupe_by_day off: 31 days over 3
\* intervals is 10.3
C6_Witness ==
    /\ report.built
    /\ ~policy.dedupeDay
    /\ "S-1" \in DOMAIN ghost.accepted
    /\ Retained("S-1") = 4
    /\ SpanDays("S-1") = 31
    /\ report.Scholars[1].AvgIntervalDays = 103

\* C7: a record dated after as_of adds one to future_rows and changes
\* neither the accumulators nor invalid_rows, and a scholar all of whose
\* records are dated after as_of is not in the report
C7_FutureRowFrame ==
    /\ [][ghost'.laterSeen = ghost.laterSeen + 1 =>
             /\ futureRows' = futureRows + 1
             /\ stats' = stats
             /\ invalidRows' = invalidRows]_vars
    /\ [](/\ DOMAIN stats \subseteq ghost.onTime
          /\ report.built => ReportIDs \subseteq ghost.onTime)

\* a report built after a record dated after as_of was read for a scholar
\* who has no other record, beside a scholar who has one
C7_Witness ==
    /\ report.built
    /\ ghost.laterSeen = 1
    /\ futureRows = 1
    /\ nread = 2
    /\ ReportIDs = {"S-2"}
    /\ ghost.onTime = {"S-2"}

\* C8: a record is counted as future if and only if its calendar date is
\* after the as-of calendar date, whatever its time of day
C8_FutureIffDateAfter == futureRows = ghost.laterSeen

\* C9: an invalid record adds one to invalid_rows, changes neither the
\* accumulators nor future_rows, and does not end the run
C9_InvalidRowFrame ==
    [][ghost'.invalidSeen = ghost.invalidSeen + 1 =>
          /\ invalidRows' = invalidRows + 1
          /\ stats' = stats
          /\ futureRows' = futureRows
          /\ pc' = "reading"]_vars

\* a record accepted after an invalid one, and both in the report
C9_Witness ==
    /\ report.built
    /\ ghost.invalidSeen = 2
    /\ ghost.afterInvalid
    /\ report.Summary.InvalidRows = 2
    /\ report.Summary.TotalScholars = 1

\* C10: the due bucket of a scholar follows days_until = next_due_date -
\* as_of = cadence_days - gap_days: overdue below 0, due_0_7 for 0..7,
\* due_8_14 for 8..14, due_15_30 for 15..30, due_31_60 for 31..60,
\* due_61_plus from 61
C10_DueBucket ==
    probe.applied = "summarize" =>
        LET daysUntil == probe.summary.NextDueDate.day - policy.asOf.day
        IN /\ daysUntil = probe.cadenceDays - probe.summary.GapDays
           /\ probe.summary.GapDays = probe.gap
           /\ probe.bucket = "overdue" <=> daysUntil < 0
           /\ probe.bucket = "due_0_7" <=> daysUntil \in 0..7
           /\ probe.bucket = "due_8_14" <=> daysUntil \in 8..14
           /\ probe.bucket = "due_15_30" <=> daysUntil \in 15..30
           /\ probe.bucket = "due_31_60" <=> daysUntil \in 31..60
           /\ probe.bucket = "due_61_plus" <=> daysUntil >= 61
           /\ (probe.cadenceDays = 90 /\ probe.gap = 87) => probe.bucket = "due_0_7"
           /\ (probe.cadenceDays = 90 /\ probe.gap = 123) => probe.bucket = "overdue"

\* cadence 90 and a last contact 87 days before as_of: due in 3 days
C10_Witness ==
    /\ probe.applied = "summarize"
    /\ probe.cadenceDays = 90
    /\ probe.gap = 87
    /\ probe.bucket = "due_0_7"

\* the inclusive bounds of the due buckets in days until due, and of the
\* recency buckets in gap days, as the report documents them:
\* <<label, least, greatest, bounded below, bounded above>>
DueBounds ==
    { <<"overdue", -1, -1, FALSE, TRUE>>, <<"due_0_7", 0, 7, TRUE, TRUE>>,
      <<"due_8_14", 8, 14, TRUE, TRUE>>, <<"due_15_30", 15, 30, TRUE, TRUE>>,
      <<"due_31_60", 31, 60, TRUE, TRUE>>, <<"due_61_plus", 61, 61, TRUE, FALSE>> }

RecencyBounds ==
    { <<"0_7", 0, 7, TRUE, TRUE>>, <<"8_30", 8, 30, TRUE, TRUE>>,
      <<"31_60", 31, 60, TRUE, TRUE>>, <<"61_90", 61, 90, TRUE, TRUE>>,
      <<"91_180", 91, 180, TRUE, TRUE>>, <<"181_plus", 181, 181, TRUE, FALSE>> }

\* whether the bucket `label` holds a scholar whose input is `days`, or who
\* has no input when `defined` is false: the unknown bucket takes the
\* scholars without input, the others the days within their bounds
InBucket(label, bounds, defined, days) ==
    IF label = "unknown" THEN ~defined
    ELSE /\ defined
         /\ \E b \in bounds :
               /\ b[1] = label
               /\ (b[4] => days >= b[2])
               /\ (b[5] => days <= b[3])

\* the buckets of a summary that hold the scholar, by the bounds of the buckets
DueBucketsOf(entry) ==
    {idx \in DOMAIN report.DueSummary :
        InBucket(report.DueSummary[idx].Label, DueBounds,
                 ~IsZero(entry.NextDueDate),
                 entry.NextDueDate.day - policy.asOf.day)}

RecencyBucketsOf(entry) ==
    {idx \in DOMAIN report.RecencySummary :
        InBucket(report.RecencySummary[idx].Label, RecencyBounds,
                 ~IsZero(entry.LastContact), entry.GapDays)}

\* C11: every scholar of the report lies within the bounds of exactly one
\* due bucket and of exactly one recency bucket, each bucket counts the
\* scholars within its bounds, and the counts of DueSummary and of
\* RecencySummary each add up to TotalScholars
C11_BucketsPartition ==
    report.built =>
        /\ \A i \in DOMAIN report.Scholars :
              /\ Cardinality(DueBucketsOf(report.Scholars[i])) = 1
              /\ Cardinality(RecencyBucketsOf(report.Scholars[i])) = 1
        /\ \A idx \in DOMAIN report.DueSummary :
              report.DueSummary[idx].Count
                  = Cardinality({i \in DOMAIN report.Scholars :
                                    idx \in DueBucketsOf(report.Scholars[i])})
        /\ \A idx \in DOMAIN report.RecencySummary :
              report.RecencySummary[idx].Count
                  = Cardinality({i \in DOMAIN report.Scholars :
                                    idx \in RecencyBucketsOf(report.Scholars[i])})
        /\ SumSeq([idx \in DOMAIN report.DueSummary |-> report.DueSummary[idx].Count])
              = report.Summary.TotalScholars
        /\ SumSeq([idx \in DOMAIN report.RecencySummary |->
                       report.RecencySummary[idx].Count])
              = report.Summary.TotalScholars

\* two scholars, one overdue and one due within the cadence, last contacted
\* 8 to 30 days and 31 to 60 days before as_of
C11_Witness ==
    /\ report.built
    /\ report.Summary.TotalScholars = 2
    /\ report.DueSummary[1].Count = 1
    /\ \E idx \in 2..6 : report.DueSummary[idx].Count = 1
    /\ report.RecencySummary[2].Count = 1
    /\ report.RecencySummary[3].Count = 1

\* the program entry a scholar belongs to: its program, or Unassigned
ProgramOf(entry) == IF entry.Program = "" THEN "Unassigned" ELSE entry.Program

\* C12: the Scholars counts of the ProgramSummary entries add up to
\* TotalScholars, every scholar is counted in exactly one entry, the one of
\* its program or of Unassigned when its program is empty, and within each
\* entry the four tier counts add up to its Scholars count
C12_ProgramCounts ==
    report.built =>
        LET ps == report.ProgramSummary
        IN /\ SumSeq([i \in DOMAIN ps |-> ps[i].Scholars]) = report.Summary.TotalScholars
           /\ \A i \in DOMAIN report.Scholars :
                 Cardinality({j \in DOMAIN ps :
                                 ps[j].Program = ProgramOf(report.Scholars[i])}) = 1
           /\ \A j \in DOMAIN ps :
                 /\ ps[j].Scholars
                       = Cardinality({i \in DOMAIN report.Scholars :
                                         ProgramOf(report.Scholars[i]) = ps[j].Program})
                 /\ ps[j].OnTrackCount + ps[j].DueSoonCount + ps[j].OverdueCount
                       + ps[j].CriticalCount = ps[j].Scholars

\* a scholar of program Alpha and a scholar without program, in two entries
C12_Witness ==
    /\ report.built
    /\ report.Summary.TotalScholars = 2
    /\ Len(report.ProgramSummary) = 2
    /\ \E j \in DOMAIN report.ProgramSummary :
          /\ report.ProgramSummary[j].Program = "Unassigned"
          /\ report.ProgramSummary[j].Scholars = 1
    /\ \E j \in DOMAIN report.ProgramSummary :
          /\ report.ProgramSummary[j].Program = "Alpha"
          /\ report.ProgramSummary[j].Scholars = 1
          /\ report.ProgramSummary[j].OverdueCount = 1

\* the reports a run on the rows and the policy of this run can return: the
\* accumulators are a function of the rows, the order in which the maps are
\* visited is not
PossibleReports ==
    {makeReport([stats |-> stats, invalidRows |-> invalidRows,
                 futureRows |-> futureRows],
                policy.asOf, policy.cadenceDays, policy.dueWindowDays, policy.topN,
                scholarOrder, programOrder) :
        scholarOrder \in Perms(DOMAIN stats), programOrder \in Perms(ProgramKeys)}

\* C13: a second run of buildReport on the same rows and the same policy
\* returns the same Report, the order of Scholars, TopGaps and
\* ProgramSummary included
C13_SameReportTwice ==
    report.built => \A second \in PossibleReports : second = report

\* the place of a scholar in the order of first appearance
PlaceOf(id) == CHOOSE k \in DOMAIN ghost.order : ghost.order[k] = id

\* C14: the Scholars list is in descending order of gap_days, and scholars
\* with equal gap_days are in the order in which they first appeared in the
\* input
C14_StableByInsertion ==
    report.built =>
        \A i, j \in DOMAIN report.Scholars :
            i < j =>
                /\ report.Scholars[i].GapDays >= report.Scholars[j].GapDays
                /\ report.Scholars[i].GapDays = report.Scholars[j].GapDays
                      => PlaceOf(report.Scholars[i].ScholarID)
                            < PlaceOf(report.Scholars[j].ScholarID)

\* the least of two numbers
Min(a, b) == IF a < b THEN a ELSE b

\* C15: TopGaps is the prefix of the Scholars list of length
\* min(top_n, TotalScholars) when top_n > 0 and the whole Scholars list when
\* top_n <= 0, the Scholars list is in descending order of gap_days, and no
\* scholar outside TopGaps has a larger gap_days than a scholar inside it
C15_TopGapsPrefix ==
    report.built =>
        LET n == IF policy.topN > 0
                 THEN Min(policy.topN, report.Summary.TotalScholars)
                 ELSE report.Summary.TotalScholars
        IN /\ report.TopGaps = SubSeq(report.Scholars, 1, n)
           /\ \A i, j \in DOMAIN report.Scholars :
                 i < j => report.Scholars[i].GapDays >= report.Scholars[j].GapDays
           /\ \A i \in DOMAIN report.TopGaps, j \in DOMAIN report.Scholars :
                 j > n => report.Scholars[j].GapDays <= report.TopGaps[i].GapDays

\* top_n = 1 with two scholars of different gaps: the larger gap is kept
C15_Witness ==
    /\ report.built
    /\ policy.topN = 1
    /\ Len(report.Scholars) = 2
    /\ Len(report.TopGaps) = 1
    /\ report.TopGaps[1].GapDays = 31
    /\ report.Scholars[2].GapDays = 22

\* C16: for every scholar, last_channel and last_status are those of the
\* accepted record with the latest calendar date, and of the last such
\* record in input order when several share that date, with dedupe_by_day
\* on and with it off
C16_LastOfLatestDate ==
    /\ \A id \in DOMAIN stats :
          /\ stats[id].LastChannel = ghost.latest[id].channel
          /\ stats[id].LastStatus = ghost.latest[id].status
    /\ report.built =>
          \A i \in DOMAIN report.Scholars :
              /\ report.Scholars[i].LastChannel
                    = ghost.latest[report.Scholars[i].ScholarID].channel
              /\ report.Scholars[i].LastStatus
                    = ghost.latest[report.Scholars[i].ScholarID].status

\* the place of a tier in the order on_track < due_soon < overdue < critical
TierPlace(name) ==
    CASE name = "on_track" -> 0
      [] name = "due_soon" -> 1
      [] name = "overdue" -> 2
      [] name = "critical" -> 3

\* the scholars of the report at or above the tier `minTier`, in the order
\* of the Scholars list
AtOrAbove(minTier) ==
    LET Alerting(entry) == TierPlace(entry.Tier) >= TierPlace(minTier)
    IN SelectSeq(report.Scholars, Alerting)

\* C17: the alerts CSV that main has written holds one record for each
\* scholar of the report whose tier is at or above --min-tier in the order
\* on_track < due_soon < overdue < critical and no other record, in the
\* order of the Scholars list; with the default --min-tier these are the
\* overdue and the critical scholars
C17_AlertsAtOrAboveMinTier ==
    (flags.given /\ flags.alerts \in DOMAIN out.files) =>
        LET records == out.files[flags.alerts]
            expected == AtOrAbove(ToLower(TrimSpace(flags.minTier)))
        IN /\ Len(records) = Len(expected)
           /\ \A i \in DOMAIN records :
                 /\ records[i].scholar_id = expected[i].ScholarID
                 /\ records[i].tier = expected[i].Tier
                 /\ records[i].gap_days = expected[i].GapDays
           /\ \A i, j \in DOMAIN records :
                 records[i].scholar_id = records[j].scholar_id => i = j
           /\ flags.minTier = "overdue" =>
                 /\ \A i \in DOMAIN records : records[i].tier \in {"overdue", "critical"}
                 /\ \A i \in DOMAIN report.Scholars :
                       report.Scholars[i].Tier \in {"overdue", "critical"}
                           => \E k \in DOMAIN records :
                                 records[k].scholar_id = report.Scholars[i].ScholarID

\* --min-tier critical on a report of a critical and an overdue scholar:
\* one record, of the critical scholar
C17_Witness ==
    /\ flags.given
    /\ flags.alerts \in DOMAIN out.files
    /\ flags.minTier = "critical"
    /\ Len(report.Scholars) = 2
    /\ report.Scholars[1].Tier = "critical"
    /\ report.Scholars[2].Tier = "overdue"
    /\ Len(out.files[flags.alerts]) = 1
    /\ out.files[flags.alerts][1].scholar_id = report.Scholars[1].ScholarID

\* C18: when main rejects a non-positive cadence or an unrecognized
\* --min-tier, no input has been read, no report has been built or printed
\* and no output file has been written
C18_RejectedBeforeProcessing ==
    out.error \in {"cadence", "min_tier"} =>
        /\ ~out.opened
        /\ nread = 0
        /\ ~report.built
        /\ ~out.printed
        /\ DOMAIN out.files = {}

\* the committed rows of the run of invocation p
RunRows(p) == {r \in db.rows : r.run = p}

\* the audit_runs row and every child row of the report for the run p
ExpectedRows(p) ==
    {[table |-> "audit_runs", run |-> p, key |-> "run"]}
    \cup {[table |-> "audit_scholar_gaps", run |-> p, key |-> report.Scholars[i].ScholarID] :
             i \in DOMAIN report.Scholars}
    \cup {[table |-> "audit_program_summary", run |-> p,
            key |-> report.ProgramSummary[i].Program] : i \in DOMAIN report.ProgramSummary}
    \cup {[table |-> "audit_channel_summary", run |-> p, key |-> k] :
             k \in DOMAIN report.ChannelSummary}
    \cup {[table |-> "audit_status_summary", run |-> p, key |-> k] :
             k \in DOMAIN report.StatusSummary}
    \cup {[table |-> "audit_recency_summary", run |-> p,
            key |-> report.RecencySummary[i].Label] : i \in DOMAIN report.RecencySummary}

\* C19: at every moment the committed rows of a run are none or all of its
\* rows, and once the call has returned either a run id was returned and
\* the audit_runs row and every child row of the run are committed, or no
\* run id was returned and no row of the run is committed, whichever
\* statement failed
C19_AllOrNothing ==
    db.inUse =>
        \A p \in Invocations :
            /\ RunRows(p) \in {{}, ExpectedRows(p)}
            /\ db.conn[p].pc = "returned" =>
                  \/ /\ db.conn[p].error = ""
                     /\ db.conn[p].runID = p
                     /\ RunRows(p) = ExpectedRows(p)
                  \/ /\ db.conn[p].runID = 0
                     /\ RunRows(p) = {}
                     /\ db.conn[p].error = "" => db.conn[p].call = "seed"

\* one call returned an error from an insert after the audit_runs row and a
\* child row had been written, and left nothing; another call committed its
\* twelve rows and returned its run id
C19_Witness ==
    /\ db.inUse
    /\ \E p, q \in Invocations :
          /\ db.conn[p].pc = "returned"
          /\ db.conn[p].error = "insert"
          /\ db.conn[p].executed >= 2
          /\ RunRows(p) = {}
          /\ db.conn[q].pc = "returned"
          /\ db.conn[q].runID = q
          /\ Cardinality(RunRows(q)) = 12

\* the committed runs that seedDatabase inserted
SeededRuns ==
    {r \in db.rows : r.table = "audit_runs" /\ db.conn[r.run].call = "seed"}

Suppressed ==
    {id \in DOMAIN ghost'.accepted :
        /\ policy.dedupeDay
        /\ id \in DOMAIN ghost.accepted
        /\ Len(ghost'.accepted[id]) = Len(ghost.accepted[id]) + 1
        /\ \E i \in DOMAIN ghost.accepted[id] :
              ghost.accepted[id][i].day
                  = ghost'.accepted[id][Len(ghost'.accepted[id])].day}

\* the record just read for the scholar as the last contact
AsLastContact(id) ==
    <<ghost'.accepted[id][Len(ghost'.accepted[id])], ghost'.latest[id].channel,
      ghost'.latest[id].status>>

LastOf(scholar) == <<scholar.LastContact, scholar.LastChannel, scholar.LastStatus>>

\* the time of the record just read for the scholar
JustRead(id) == ghost'.accepted[id][Len(ghost'.accepted[id])]

Counted ==
    {id \in DOMAIN ghost'.accepted :
        /\ Len(ghost'.accepted[id])
              = (IF id \in DOMAIN ghost.accepted THEN Len(ghost.accepted[id]) ELSE 0) + 1
        /\ id \notin Suppressed}

\* the accumulator of the scholar before the step
Earlier(id) == IF id \in DOMAIN stats THEN stats[id] ELSE NewScholar(id)

C24_FirstProgramSticks ==
    \A id \in DOMAIN stats :
        stats[id].Program = (IF id \in DOMAIN ghost.programs
                             THEN Head(ghost.programs[id]) ELSE "")

\* a scholar with three accepted records who got the program Alpha and
\* kept it through a later record with the program Beta
C24_Witness ==
    \E id \in DOMAIN ghost.programs :
        /\ Len(ghost.accepted[id]) = 3
        /\ ghost.programs[id] = <<"Alpha", "Beta">>
        /\ stats[id].Program = "Alpha"

\* the scholars whose accepted record the step has just read on a calendar
\* date that one of their accepted records had
Repeated ==
    {id \in DOMAIN ghost.accepted :
        /\ Len(ghost'.accepted[id]) = Len(ghost.accepted[id]) + 1
        /\ JustRead(id).day \in DistinctDays(id)}

TotalContacts ==
    SumSeq([i \in DOMAIN ghost.order |-> stats[ghost.order[i]].ContactCount])

\* the accepted records on a calendar date that an earlier accepted record
\* of the same scholar had
SameDayRepeats ==
    SumSeq([i \in DOMAIN ghost.order |->
               Len(ghost.accepted[ghost.order[i]])
                 - Cardinality(DistinctDays(ghost.order[i]))])

\* C26: every record read is counted once, as invalid, as future, as a
\* contact of its scholar or, with dedupe_by_day on, as a suppressed
\* same-day duplicate; with dedupe_by_day off invalid_rows + future_rows +
\* the sum of contact_count is the number of records read
C26_RowConservation ==
    /\ DOMAIN stats = {ghost.order[i] : i \in DOMAIN ghost.order}
    /\ invalidRows + futureRows + TotalContacts
         + (IF policy.dedupeDay THEN SameDayRepeats ELSE 0)
       = nread

\* three records read with dedupe_by_day on: one invalid, one a contact,
\* one its same-day duplicate
C26_Witness ==
    /\ nread = 3
    /\ policy.dedupeDay
    /\ invalidRows = 1
    /\ TotalContacts = 1
    /\ SameDayRepeats = 1

\* C27: for a scholar of a report the due bucket is "overdue" exactly when
\* the tier is not on_track, exactly when days_past_due > 0, exactly when
\* missed_cadences >= 1, exactly when gap_days > cadence_days
C27_PastCadenceEquivalence ==
    probe.applied = "summarize" =>
        LET late == probe.summary.GapDays > probe.cadenceDays
        IN /\ (probe.bucket = "overdue") <=> late
           /\ (probe.summary.Tier # "on_track") <=> late
           /\ (probe.summary.DaysPastDue > 0) <=> late
           /\ (probe.summary.MissedCadences >= 1) <=> late

\* a scholar one day past the cadence, in the tier due_soon
C27_Witness ==
    /\ probe.applied = "summarize"
    /\ probe.summary.GapDays = probe.cadenceDays + 1
    /\ probe.bucket = "overdue"
    /\ probe.summary.Tier = "due_soon"
    /\ probe.summary.DaysPastDue = 1
    /\ probe.summary.MissedCadences = 1

\* C28: with due_window_days >= cadence_days no scholar of a report has
\* the tier overdue, and OverdueCount is 0 in the report's summary and in
\* every program's summary
C28_WideWindowNoOverdue ==
    (report.built /\ policy.dueWindowDays >= policy.cadenceDays) =>
        /\ \A i \in DOMAIN report.Scholars : report.Scholars[i].Tier # "overdue"
        /\ report.Summary.OverdueCount = 0
        /\ \A i \in DOMAIN report.ProgramSummary :
              report.ProgramSummary[i].OverdueCount = 0

\* cadence 15 and due window 15: a scholar 22 days after the last contact is
\* due_soon and one 31 days after it is critical
C28_Witness ==
    /\ report.built
    /\ policy.cadenceDays = 15
    /\ policy.dueWindowDays = 15
    /\ \E i, j \in DOMAIN report.Scholars :
          /\ report.Scholars[i].GapDays = 22
          /\ report.Scholars[i].Tier = "due_soon"
          /\ report.Scholars[j].GapDays = 31
          /\ report.Scholars[j].Tier = "critical"
    /\ Len(report.ProgramSummary) = 2

\* the count of the bucket "unknown" in a bucket summary
UnknownCount(summary) ==
    SumSeq([i \in DOMAIN summary |->
               IF summary[i].Label = "unknown" THEN summary[i].Count ELSE 0])

\* C30: every scholar of a report has contact_count >= 1 and a last
\* contact that is set, with first_contact <= last_contact <= as_of, and
\* the "unknown" due bucket and the "unknown" recency bucket count 0
C30_LastContactSet ==
    report.built =>
        /\ \A i \in DOMAIN report.Scholars :
              /\ report.Scholars[i].ContactCount >= 1
              /\ ~IsZero(report.Scholars[i].LastContact)
              /\ ~After(report.Scholars[i].FirstContact, report.Scholars[i].LastContact)
              /\ ~After(report.Scholars[i].LastContact, policy.asOf)
        /\ UnknownCount(report.DueSummary) = 0
        /\ UnknownCount(report.RecencySummary) = 0

\* what of a report does not depend on the order of the rows, as C29 has
\* it: per scholar the contact count, the calendar dates of the first and
\* the last contact, the gap, the missed cadences, the days past due, the
\* tier and the two buckets, and the counts of the report
Unordered(rep, asOf) ==
    [scholars |->
        {[ScholarID |-> rep.Scholars[i].ScholarID,
          ContactCount |-> rep.Scholars[i].ContactCount,
          FirstContact |-> rep.Scholars[i].FirstContact.day,
          LastContact |-> rep.Scholars[i].LastContact.day,
          GapDays |-> rep.Scholars[i].GapDays,
          MissedCadences |-> rep.Scholars[i].MissedCadences,
          DaysPastDue |-> rep.Scholars[i].DaysPastDue,
          Tier |-> rep.Scholars[i].Tier,
          due |-> bucketDueLabel(rep.Scholars[i].NextDueDate, dateOnly(asOf)),
          recency |-> bucketRecencyLabel(rep.Scholars[i])] :
            i \in DOMAIN rep.Scholars},
     InvalidRows |-> rep.Summary.InvalidRows,
     FutureRows |-> rep.Summary.FutureRows,
     TotalScholars |-> rep.Summary.TotalScholars,
     tiers |-> <<rep.Summary.OnTrackCount, rep.Summary.DueSoonCount,
                 rep.Summary.OverdueCount, rep.Summary.CriticalCount>>]

\* C29: the report of the same rows in another order has, for every
\* scholar, the same contact_count, calendar dates of first_contact and
\* last_contact, gap_days, missed_cadences, days_past_due, tier, due bucket
\* and recency bucket, and the same invalid_rows, future_rows,
\* TotalScholars and tier counts
C29_OrderIndependent ==
    probe.applied = "reorder" =>
        Unordered(probe.first, policy.asOf) = Unordered(probe.second, policy.asOf)

====
